---- MODULE Spec2Model ----
(***************************************************************************)
(* A model of the terrablade protocol engine: the packet stream framer     *)
(* (PacketStream), the message parser (TerrariaMessage) and the login      *)
(* handshake (TerrariaClient.login) with the world state it feeds.         *)
(*                                                                         *)
(* Bytes are naturals.  A frame is <<lo, hi, type>> \o payload with        *)
(* lo + 256*hi the total byte count of the frame.                          *)
(***************************************************************************)
EXTENDS Integers, Sequences, FiniteSets, TLC

VARIABLES
    wire,    \* bytes written by the peer and not yet read from the socket
    buf,     \* PacketStream.buf
    frames,  \* history: the frames the framer's peer wrote, in order
    out,     \* history: the messages _next_message returned, in order
    op,      \* history: the last step taken ("init", "feed", "call", "approval", ...)
    ret,     \* history: what the last _next_message call returned
    buf0,    \* history: PacketStream.buf before the last operation
    closed,  \* the peer has closed the connection
    srv_count,            \* history: how many frames the server has written
    pc,      \* where TerrariaClient.login stands
    password,             \* TerrariaClient.password (None when not configured)
    worldinfo_retry,      \* TerrariaClient.worldinfo_retry
    sent,                 \* history: the packets the client sent, in order
    player_slot,          \* login: player_slot
    world_info,           \* login: world_info
    state,                \* login: state, the WorldState
    pending,              \* login: teleport_tracker.pending
    inventory,            \* login: inventory.slots
    xy,                   \* idle_loop: x, y
    now,                  \* time.time(), in ticks
    last_worldinfo_send,  \* login: last_worldinfo_send
    error,                \* the SystemExit text or the exception that ended login
    batch,   \* history: the messages the last stream call of login returned
    seen,    \* history: how many messages of batch the handling loop looked at
    gotFatal,     \* history: a handling loop of login has come to a fatal-error message
    lastArrival,  \* history: when the world-info loop last got a message
    calls,        \* history: the TeleportTracker calls made, with what they returned
    blob,         \* the payload handed to parse_tile_section
    important,    \* the tile_frame_important set handed to parse_tile_section
    parsed,       \* what parse_tile_section returned or raised
    polled,       \* history: the last poll_messages call, its max_messages and result
    arg,          \* the arguments of the call a function harness makes
    res,          \* what that call returned or raised
    proxy         \* dumper.py: per direction, the pipe task and the two stream ends

frameVars == <<out, ret, buf0>>

callVars == <<polled, arg, res, proxy>>

unitVars == <<calls, blob, important, parsed, polled, arg, res, proxy>>

sessionVars ==
    <<closed, srv_count, pc, password, worldinfo_retry, sent, player_slot, world_info, state,
      pending, inventory, xy, now, last_worldinfo_send, error, batch, seen,
      gotFatal, lastArrival>>

vars ==
    <<wire, buf, frames, out, op, ret, buf0, closed, srv_count, pc, password,
      worldinfo_retry,
      sent, player_slot, world_info, state, pending, inventory, xy, now,
      last_worldinfo_send, error, batch, seen, gotFatal, lastArrival, calls, blob,
      important, parsed, polled, arg, res, proxy>>

(***************************************************************************)
(* Bounds of the model.                                                    *)
(***************************************************************************)
MaxFrames == 2      \* frames in a valid stream
MaxRawLen == 4      \* bytes of an arbitrary stream
MaxRawByte == 3     \* largest byte value of an arbitrary stream
MaxOut == 3         \* messages recorded from an arbitrary stream
MaxSrvMsgs == 4     \* frames the server writes in a session
MaxInFlight == 2    \* frames written that the client has not taken from its stream
MaxTime == 2        \* ticks of the clock while waiting for world info
MaxRetry == 1       \* largest configured worldinfo_retry, in ticks
InventoryCount == 2 \* TerrariaClient.inventory_count
MaxIdleSends == 1   \* keep-alive packets of the idle loop
MaxCalls == 6       \* calls made on a TeleportTracker
MaxCellBytes == 5   \* bytes of cell data in a tile section handed to the decoder
MaxWorldMsgs == 5   \* frames written by a server that follows the protocol order
MaxPoll == 2        \* largest max_messages a caller passes to poll_messages
MaxCut == 1         \* bytes of its last frame a closing peer leaves unwritten
MaxReady == 7       \* bytes written by the peer and not yet read while a poll runs
MaxBuffered == 8    \* bytes of the buffer kept while a poll runs
MaxSections == 2    \* tile sections merged into a WorldState driven by a caller
MaxBuffs == 2       \* buff ids in a list handed to build_player_buffs_packet
MaxVarintLen == 7   \* bytes of a stream handed to read_7bit_encoded_int
MaxPayload == 3     \* bytes of the payload a packet builder is given
MaxLoginMsgs == 3   \* frames of the server that answers with anything
MaxItems == 2       \* world items when try_pickup_reserved_items is called

(***************************************************************************)
(* Program constants.                                                      *)
(***************************************************************************)
BuffSlots == 44         \* buffs = [0] * 44
VarintMaxShift == 35    \* if shift > 35: raise ValueError
PollMax == 50           \* poll_messages(max_messages=50)
PickupRadius == 42      \* pickup_radius default

(***************************************************************************)
(* Message type ids.                                                       *)
(***************************************************************************)
MSG_CONNECT == 1
MSG_FATAL_ERROR == 2
MSG_APPROVED == 3
MSG_APPEARANCE == 4
MSG_INVENTORY == 5
MSG_REQUEST_WORLD == 6
MSG_WORLD_INFO == 7
MSG_REQUEST_TILES == 8
MSG_TILE_SECTION == 10
MSG_PLAYER_SPAWN == 12
MSG_PLAYER_CONTROLS == 13
MSG_UNUSED == 15
MSG_LIFE == 16
MSG_ITEM == 21
MSG_ITEM_OWNER == 22
MSG_NPC == 23
MSG_REQUEST_PASSWORD == 37
MSG_PASSWORD == 38
MSG_MANA == 42
MSG_SPAWN == 49
MSG_BUFFS == 50
MSG_TELEPORT == 65
MSG_UUID == 68
MSG_NETMODULE == 82
MSG_LOADOUT == 147
MSG_REMOVE_ITEM == 151

(***************************************************************************)
(* Sequences as Python slices.                                             *)
(***************************************************************************)
Min(a, b) == IF a < b THEN a ELSE b

Max(a, b) == IF a > b THEN a ELSE b

\* s[:n]
Take(s, n) == SubSeq(s, 1, Min(Max(n, 0), Len(s)))

\* s[n:]
Drop(s, n) == SubSeq(s, Min(Max(n, 0), Len(s)) + 1, Len(s))

RECURSIVE Concat(_)
Concat(ss) == IF ss = <<>> THEN <<>> ELSE Head(ss) \o Concat(Tail(ss))

RECURSIVE SeqsUpTo(_, _)
SeqsUpTo(S, n) ==
    IF n = 0 THEN {<<>>}
    ELSE LET shorter == SeqsUpTo(S, n - 1)
         IN  shorter \cup {Append(s, x) : s \in {t \in shorter : Len(t) = n - 1}, x \in S}

None == [none |-> TRUE]

(***************************************************************************)
(* terraria_construct.py: payload schemas.  A schema is the number of      *)
(* payload bytes its fixed fields need; a type with no entry in            *)
(* payload_structs is parsed by the Switch default, GreedyBytes.           *)
(***************************************************************************)
Registered ==
    {MSG_FATAL_ERROR, MSG_APPROVED, MSG_WORLD_INFO, MSG_TILE_SECTION,
     MSG_PLAYER_SPAWN, MSG_PLAYER_CONTROLS, MSG_UNUSED, MSG_ITEM, MSG_ITEM_OWNER,
     MSG_NPC, MSG_REQUEST_PASSWORD, MSG_SPAWN, MSG_TELEPORT, MSG_NETMODULE}

\* The payload elements a registered schema needs before it parses.  $02 and
\* $03 are byte for byte; in the other schemas one element stands for one
\* field, and the fields the session never reads are left out:
\*   $07 spawn_tile_x, spawn_tile_y      $0A (bytes) 1 + 4 + 4 + 2 + 2
\*   $0C player_slot, spawn_x, spawn_y   $0D player_slot, position_x, position_y
\*   $15 item_slot, position_x, position_y, stack, prefix_id, item_id
\*   $16 item_slot, owner                $17 npc_slot
\*   $41 flags, player_slot, destination_x, destination_y
\*   $52 (bytes) 4
SchemaNeed(t, raw) ==
    CASE t = MSG_FATAL_ERROR -> IF raw = <<>> THEN 1 ELSE 1 + raw[1]
      [] t = MSG_APPROVED -> 2
      [] t = MSG_WORLD_INFO -> 2
      [] t = MSG_TILE_SECTION -> 13
      [] t = MSG_PLAYER_SPAWN -> 3
      [] t = MSG_PLAYER_CONTROLS -> 3
      [] t = MSG_ITEM -> 6
      [] t = MSG_ITEM_OWNER -> 2
      [] t = MSG_NPC -> 1
      [] t = MSG_TELEPORT -> 4
      [] t = MSG_NETMODULE -> 4
      [] OTHER -> 0

\* PascalString(lengthfield=Byte, encoding="ascii") of $02 decodes.
AsciiDecodes(t, raw) ==
    t = MSG_FATAL_ERROR => \A i \in 2 .. SchemaNeed(t, raw) : raw[i] < 128

\* The Switch with a default that takes no bytes.
ParsePayload_DefaultEmpty(t, raw) ==
    IF t \notin Registered THEN [kind |-> "bytes", raw |-> <<>>]
    ELSE IF Len(raw) >= SchemaNeed(t, raw) /\ AsciiDecodes(t, raw)
         THEN [kind |-> "record", f |-> Take(raw, SchemaNeed(t, raw)), raw |-> raw]
         ELSE [kind |-> "fallback", raw |-> raw]

\* Switch(this.type, payload_structs, default=GreedyBytes) inside FixedSized,
\* with the fallback of _next_message when the schema raises.  A payload is
\* plain bytes (no schema), a record of fields f (a Container) or the fallback
\* namespace; raw notes the bytes FixedSized handed to the schema.
ParsePayload(t, raw) ==
    IF t \notin Registered THEN [kind |-> "bytes", raw |-> raw]
    ELSE IF Len(raw) >= SchemaNeed(t, raw) /\ AsciiDecodes(t, raw)
         THEN [kind |-> "record", f |-> Take(raw, SchemaNeed(t, raw)), raw |-> raw]
         ELSE [kind |-> "fallback", raw |-> raw]

\* TerrariaMessage.parse(packet) with the except branch of _next_message.
ParseMessage(packet) ==
    IF Len(packet) >= 3
    THEN [type |-> packet[3], payload |-> ParsePayload(packet[3], Drop(packet, 3))]
    ELSE [type |-> 0, payload |-> [kind |-> "fallback", raw |-> <<>>]]

(***************************************************************************)
(* main.py: build_raw_packet and PacketStream.                             *)
(***************************************************************************)
\* struct.pack("<HB", 3 + len(payload), msg_type) + payload
BuildRawPacket(t, payload) ==
    <<(3 + Len(payload)) % 256, ((3 + Len(payload)) \div 256) % 256, t>> \o payload

\* payload_structs[msg_type].build(payload_dict) for the schemas that are
\* byte for byte here: $02 is one ascii PascalString (its length, then its
\* characters), $03 is two Byte fields; a type without a schema has no entry.
\* payload_dict is the sequence of the values it gives the fields.
SchemaBuild(t, payload_dict) ==
    CASE t = MSG_FATAL_ERROR ->
            IF \E i \in 1 .. Len(payload_dict) : payload_dict[i] >= 128
            THEN [raised |-> "StringError", bytes |-> <<>>]
            ELSE [raised |-> "", bytes |-> <<Len(payload_dict)>> \o payload_dict]
      [] t = MSG_APPROVED ->
            IF Len(payload_dict) < 2 THEN [raised |-> "KeyError", bytes |-> <<>>]
            ELSE [raised |-> "", bytes |-> Take(payload_dict, 2)]
      [] OTHER -> [raised |-> "KeyError", bytes |-> <<>>]

\* build_packet(msg_type, payload_dict)
BuildPacket(t, payload_dict) ==
    IF SchemaBuild(t, payload_dict).raised # "" THEN SchemaBuild(t, payload_dict)
    ELSE [raised |-> "",
          bytes |-> <<(3 + Len(SchemaBuild(t, payload_dict).bytes)) % 256,
                      ((3 + Len(SchemaBuild(t, payload_dict).bytes)) \div 256) % 256, t>>
                    \o SchemaBuild(t, payload_dict).bytes]

\* build_netmodule_packet with the length of the module payload alone.
BuildNetmodulePacket_PayloadLength(module_id, payload) ==
    <<(3 + Len(payload)) % 256, ((3 + Len(payload)) \div 256) % 256, MSG_NETMODULE,
      module_id % 256, (module_id \div 256) % 256>> \o payload

\* build_netmodule_packet(module_id, payload):
\* struct.pack("<HBH", 2 + 1 + 2 + len(payload), 0x52, module_id) + payload
BuildNetmodulePacket(module_id, payload) ==
    <<(5 + Len(payload)) % 256, ((5 + Len(payload)) \div 256) % 256, MSG_NETMODULE,
      module_id % 256, (module_id \div 256) % 256>> \o payload

\* int.from_bytes(buf[:2], "little")
LengthField(b) == b[1] + 256 * b[2]

\* PacketStream._feed
FeedBuf(b, data) == b \o data

\* del self.buf[:length]
Consume_KeepsLastByte(b, length) == Drop(b, length - 1)

Consume(b, length) == Drop(b, length)

\* _next_message without the check that the whole frame is buffered.
NextMessage_PartialDecode(b) ==
    IF Len(b) < 2 THEN [msg |-> None, buf |-> b, length |-> 0]
    ELSE [msg |-> ParseMessage(Take(b, LengthField(b))),
          buf |-> Consume(b, LengthField(b)),
          length |-> LengthField(b)]

\* PacketStream._next_message: the message returned (None when incomplete),
\* the buffer left, and the length read from the length field.
NextMessage(b) ==
    IF Len(b) < 2 THEN [msg |-> None, buf |-> b, length |-> 0]
    ELSE LET length == LengthField(b)
         IN  IF Len(b) < length THEN [msg |-> None, buf |-> b, length |-> length]
             ELSE [msg |-> ParseMessage(Take(b, length)),
                   buf |-> Consume(b, length),
                   length |-> length]

(***************************************************************************)
(* main.py: ByteReader and the tile section decoder.  Positions are        *)
(* 0-based as in ByteReader.pos.  A read past the end raises EOFError; the *)
(* reads of one cell are in increasing positions, so one of them was past  *)
(* the end exactly when the position after the cell is.                    *)
(***************************************************************************)
At(data, pos) == IF pos < Len(data) THEN data[pos + 1] ELSE 0

Bit(b, mask) == (b \div mask) % 2 = 1

Size(cond, n) == IF cond THEN n ELSE 0

\* struct.unpack("<h", two bytes)
Int16(lo, hi) == IF hi >= 128 THEN lo + 256 * (hi - 256) ELSE lo + 256 * hi

\* struct.unpack("<i", four bytes)
Int32(b0, b1, b2, b3) ==
    b0 + 256 * b1 + 65536 * b2 + 16777216 * (IF b3 >= 128 THEN b3 - 256 ELSE b3)

ReadInt16(data, pos) == Int16(At(data, pos), At(data, pos + 1))

ReadInt32(data, pos) ==
    Int32(At(data, pos), At(data, pos + 1), At(data, pos + 2), At(data, pos + 3))

NoType == [none |-> TRUE]

\* VersionSpec.tile_frame_important of the session's profile.
TileFrameImportant == {3}

\* _decompress_tile_block: zlib.decompress, then raw deflate on zlib.error.
\* zlib is a library: a payload with the zlib header byte $78 inflates to the
\* bytes after it, one starting with a stored raw-deflate block ($01) inflates
\* on the second attempt, any other bytes are a zlib.error, and a payload that
\* is no bytes object is a TypeError, which the except clause does not catch.
DecompressTileBlock(payload) ==
    IF payload.kind # "bytes" THEN [ok |-> FALSE, err |-> "TypeError"]
    ELSE IF payload.raw # <<>> /\ payload.raw[1] \in {120, 1}
         THEN [ok |-> TRUE, data |-> Tail(payload.raw)]
         ELSE [ok |-> FALSE, err |-> "zlib.error"]

\* The end of one non-repeat cell of parse_tile_section: the repeat count
\* read at pos.
ReadRle(data, pos, rle_flag, active, tile_type) ==
    [ok |-> pos + Size(rle_flag = 1, 1) + Size(rle_flag \in {2, 3}, 2) <= Len(data),
     pos |-> pos + Size(rle_flag = 1, 1) + Size(rle_flag \in {2, 3}, 2),
     active |-> active,
     type |-> tile_type,
     rle |-> CASE rle_flag = 1 -> At(data, pos)
               [] rle_flag \in {2, 3} -> ReadInt16(data, pos)
               [] OTHER -> 0]

\* The middle of one cell, its colour byte read whether or not the cell is
\* active.
ReadBody_ColourAlways(data, pos, tile_frame_important, b4, b2, active, tile_type) ==
    ReadRle(data,
            pos + Size(active, IF Bit(b4, 32) THEN 2 ELSE 1)
                + Size(active /\ tile_type \in tile_frame_important, 4)
                + Size(Bit(b2, 8), 1)
                + Size(Bit(b4, 4), 1 + Size(Bit(b2, 16), 1))
                + Size((b4 \div 8) % 4 # 0, 1)
                + Size(Bit(b2, 64), 1),
            (b4 \div 64) % 4, active, tile_type)

\* The middle of one cell: frame, colour, wall, liquid and the high wall
\* byte are skipped, after the tile type read at pos.
ReadBody(data, pos, tile_frame_important, b4, b2, active, tile_type) ==
    ReadRle(data,
            pos + Size(active, IF Bit(b4, 32) THEN 2 ELSE 1)
                + Size(active /\ tile_type \in tile_frame_important, 4)
                + Size(active /\ Bit(b2, 8), 1)
                + Size(Bit(b4, 4), 1 + Size(Bit(b2, 16), 1))
                + Size((b4 \div 8) % 4 # 0, 1)
                + Size(Bit(b2, 64), 1),
            (b4 \div 64) % 4, active, tile_type)

\* The tile type of one cell, read at pos when the cell is active.
ReadType(data, pos, tile_frame_important, b4, b2) ==
    ReadBody(data, pos, tile_frame_important, b4, b2, Bit(b4, 2),
             IF ~Bit(b4, 2) THEN NoType
             ELSE IF Bit(b4, 32) THEN At(data, pos) + 256 * At(data, pos + 1)
             ELSE At(data, pos))

\* The header bytes b4, b3, b2 (and b1, which is only skipped) of one cell.
ReadFlags(data, pos, tile_frame_important, b4, b3) ==
    ReadType(data,
             pos + 1 + Size(Bit(b4, 1), 1) + Size(Bit(b4, 1) /\ Bit(b3, 1), 1)
                 + Size(Bit(b4, 1) /\ Bit(b3, 1) /\ Bit(At(data, pos + 2), 1), 1),
             tile_frame_important, b4,
             IF Bit(b4, 1) /\ Bit(b3, 1) THEN At(data, pos + 2) ELSE 0)

\* One non-repeat cell of parse_tile_section, read at pos.
ReadCell(data, pos, tile_frame_important) ==
    ReadFlags(data, pos, tile_frame_important, At(data, pos),
              IF Bit(At(data, pos), 1) THEN At(data, pos + 1) ELSE 0)

\* tiles[(x, y)] = tile_type
PutTile(tiles, coord, t) ==
    [c \in DOMAIN tiles \cup {coord} |-> IF c = coord THEN t ELSE tiles[c]]

NoTiles == [c \in {} |-> 0]

\* range(y_start, y_start + height) x range(x_start, x_start + width)
CellCount(hdr) == IF hdr.width > 0 /\ hdr.height > 0 THEN hdr.width * hdr.height ELSE 0

\* (x, y) of cell k of the section, rows first.
Coord(hdr, k) == <<hdr.x_start + (k % hdr.width), hdr.y_start + (k \div hdr.width)>>

RECURSIVE DecodeCells(_, _, _, _, _, _, _, _)
\* The cell loop after a cell c was read, its run counted one short.
AfterCell_RunOneShort(data, hdr, tile_frame_important, k, c, tiles) ==
    IF ~c.ok THEN [ok |-> FALSE, err |-> "EOFError"]
    ELSE DecodeCells(data, hdr, tile_frame_important, k + 1, c.pos, Max(c.rle - 1, 0),
             [active |-> c.active, type |-> c.type],
             IF c.active THEN PutTile(tiles, Coord(hdr, k), c.type) ELSE tiles)

\* The cell loop after a cell c was read, the remembered cell marked active
\* whatever the cell was.
AfterCell_RemembersActive(data, hdr, tile_frame_important, k, c, tiles) ==
    IF ~c.ok THEN [ok |-> FALSE, err |-> "EOFError"]
    ELSE DecodeCells(data, hdr, tile_frame_important, k + 1, c.pos, c.rle,
             [active |-> TRUE, type |-> c.type],
             IF c.active THEN PutTile(tiles, Coord(hdr, k), c.type) ELSE tiles)

\* The cell loop after a cell c was read.
AfterCell(data, hdr, tile_frame_important, k, c, tiles) ==
    IF ~c.ok THEN [ok |-> FALSE, err |-> "EOFError"]
    ELSE DecodeCells(data, hdr, tile_frame_important, k + 1, c.pos, c.rle,
             [active |-> c.active, type |-> c.type],
             IF c.active THEN PutTile(tiles, Coord(hdr, k), c.type) ELSE tiles)

\* The cell loop of parse_tile_section from cell k on (row-major).
DecodeCells(data, hdr, tile_frame_important, k, pos, rle, last_tile, tiles) ==
    IF k >= CellCount(hdr) THEN [ok |-> TRUE, tiles |-> tiles]
    ELSE IF rle # 0
         THEN DecodeCells(data, hdr, tile_frame_important, k + 1, pos, rle - 1,
                  last_tile,
                  IF last_tile.active THEN PutTile(tiles, Coord(hdr, k), last_tile.type)
                  ELSE tiles)
         ELSE AfterCell(data, hdr, tile_frame_important, k,
                  ReadCell(data, pos, tile_frame_important), tiles)

\* The header of a tile section: x_start, y_start, width, height.
ReadHeader(data) ==
    [x_start |-> ReadInt32(data, 0), y_start |-> ReadInt32(data, 4),
     width |-> ReadInt16(data, 8), height |-> ReadInt16(data, 10)]

\* The section parse_tile_section returns for the cells r decoded.
Section(hdr, r) ==
    IF r.ok THEN [ok |-> TRUE, hdr |-> hdr, tiles |-> r.tiles]
    ELSE [ok |-> FALSE, err |-> r.err]

\* parse_tile_section without its branch for a missing frame-important set.
ParseInflated_AlwaysDecodes(d, tile_frame_important) ==
    IF ~d.ok THEN [ok |-> FALSE, err |-> d.err]
    ELSE IF Len(d.data) < 12 THEN [ok |-> FALSE, err |-> "EOFError"]
    ELSE Section(ReadHeader(d.data),
             DecodeCells(d.data, ReadHeader(d.data), tile_frame_important, 0, 12, 0,
                 [active |-> FALSE, type |-> NoType], NoTiles))

\* parse_tile_section on the inflated bytes d.  Without a frame-important
\* set it reads the header only and stores no tiles.
ParseInflated(d, tile_frame_important) ==
    IF ~d.ok THEN [ok |-> FALSE, err |-> d.err]
    ELSE IF Len(d.data) < 12 THEN [ok |-> FALSE, err |-> "EOFError"]
    ELSE IF tile_frame_important = {}
    THEN [ok |-> TRUE, hdr |-> ReadHeader(d.data), tiles |-> NoTiles]
    ELSE Section(ReadHeader(d.data),
             DecodeCells(d.data, ReadHeader(d.data), tile_frame_important, 0, 12, 0,
                 [active |-> FALSE, type |-> NoType], NoTiles))

\* parse_tile_section(payload, tile_frame_important): the section, or the
\* exception raised.
ParseTileSection(payload, tile_frame_important) ==
    ParseInflated(DecompressTileBlock(payload), tile_frame_important)

(***************************************************************************)
(* main.py: PacketStream.poll_messages, WorldState, TeleportTracker,       *)
(* InventoryState.                                                         *)
(***************************************************************************)
\* The second loop of poll_messages: up to max messages from the buffer.
RECURSIVE PollMessages(_, _)
\* The loop without its bound.
PollMessages_Unbounded(b, max) ==
    LET r == NextMessage(b)
    IN  IF r.msg = None THEN [msgs |-> <<>>, buf |-> b]
        ELSE LET rest == PollMessages(r.buf, max)
             IN  [msgs |-> <<r.msg>> \o rest.msgs, buf |-> rest.buf]

PollMessages(b, max) ==
    IF max = 0 THEN [msgs |-> <<>>, buf |-> b]
    ELSE LET r == NextMessage(b)
         IN  IF r.msg = None THEN [msgs |-> <<>>, buf |-> b]
             ELSE LET rest == PollMessages(r.buf, max - 1)
                  IN  [msgs |-> <<r.msg>> \o rest.msgs, buf |-> rest.buf]

\* WorldState.__init__; items keeps the insertion order of the dict.
NewWorldState ==
    [tiles |-> NoTiles, items |-> <<>>, npcs |-> [c \in {} |-> 0],
     player_pos |-> [c \in {} |-> 0], tile_sections |-> 0]

\* A merge in which a tile already stored wins.
MergeTiles_FirstWins(tiles, new) ==
    [c \in DOMAIN tiles \cup DOMAIN new |-> IF c \in DOMAIN tiles THEN tiles[c] ELSE new[c]]

\* self.tiles.update(section["tiles"])
MergeTiles(tiles, new) ==
    [c \in DOMAIN tiles \cup DOMAIN new |-> IF c \in DOMAIN new THEN new[c] ELSE tiles[c]]

\* WorldState.update_tile_section
UpdateTileSection(st, section) ==
    [st EXCEPT !.tiles = MergeTiles(@, section.tiles), !.tile_sections = @ + 1]

HasItem(items, slot) == \E i \in DOMAIN items : items[i].item_slot = slot

\* WorldState.update_item: a known key keeps its place in the dict.
UpdateItem(st, item) ==
    [st EXCEPT !.items =
        IF HasItem(@, item.item_slot)
        THEN [i \in DOMAIN @ |-> IF @[i].item_slot = item.item_slot THEN item ELSE @[i]]
        ELSE Append(@, item)]

\* An owner update that makes an entry for a slot not stored.
UpdateItemOwner_CreatesEntry(st, slot, owner) ==
    [st EXCEPT !.items =
        IF HasItem(@, slot)
        THEN [i \in DOMAIN @ |-> IF @[i].item_slot = slot THEN [@[i] EXCEPT !.owner = <<owner>>]
                                 ELSE @[i]]
        ELSE Append(@, [item_slot |-> slot, owner |-> <<owner>>])]

\* WorldState.update_item_owner; an item's owner is <<>> until one is set.
UpdateItemOwner(st, slot, owner) ==
    [st EXCEPT !.items =
        [i \in DOMAIN @ |-> IF @[i].item_slot = slot THEN [@[i] EXCEPT !.owner = <<owner>>]
                            ELSE @[i]]]

\* WorldState.remove_item
RemoveItem(st, slot) ==
    [st EXCEPT !.items = SelectSeq(@, LAMBDA it : it.item_slot # slot)]

\* WorldState.update_npc
UpdateNpc(st, npc) ==
    [st EXCEPT !.npcs = [c \in DOMAIN @ \cup {npc.npc_slot} |->
                            IF c = npc.npc_slot THEN npc ELSE @[c]]]

\* WorldState.update_player_pos
UpdatePlayerPos(st, slot, x, y) ==
    [st EXCEPT !.player_pos = [c \in DOMAIN @ \cup {slot} |->
                                  IF c = slot THEN <<x, y>> ELSE @[c]]]

NoPending == [c \in {} |-> 0]

PendingOf(pend, target) == IF target \in DOMAIN pend THEN pend[target] ELSE 0

\* TeleportTracker.sent: the tracker after the call and the value returned.
TrackerSent(pend, target) ==
    [pending |-> [c \in DOMAIN pend \cup {target} |->
                     IF c = target THEN PendingOf(pend, target) + 1 ELSE pend[c]],
     result |-> PendingOf(pend, target) = 0]

\* ack reporting a drain at every acknowledgement of a pending target.
TrackerAck_AlwaysDrained(pend, target) ==
    IF target \in DOMAIN pend
    THEN IF Max(0, pend[target] - 1) = 0
         THEN [pending |-> [c \in DOMAIN pend \ {target} |-> pend[c]], result |-> TRUE]
         ELSE [pending |-> [pend EXCEPT ![target] = Max(0, @ - 1)], result |-> TRUE]
    ELSE [pending |-> pend, result |-> FALSE]

\* ack without the del of the drained entry.
TrackerAck_KeepsDrained(pend, target) ==
    IF target \in DOMAIN pend
    THEN [pending |-> [pend EXCEPT ![target] = Max(0, @ - 1)],
          result |-> Max(0, pend[target] - 1) = 0]
    ELSE [pending |-> pend, result |-> FALSE]

\* TeleportTracker.ack
TrackerAck(pend, target) ==
    IF target \in DOMAIN pend
    THEN IF Max(0, pend[target] - 1) = 0
         THEN [pending |-> [c \in DOMAIN pend \ {target} |-> pend[c]], result |-> TRUE]
         ELSE [pending |-> [pend EXCEPT ![target] = Max(0, @ - 1)], result |-> FALSE]
    ELSE [pending |-> pend, result |-> FALSE]

\* find_empty_slot that takes the first slot, whatever it holds.
FindEmptySlot_First(slots) ==
    IF slots = <<>> THEN <<>> ELSE <<0>>

\* InventoryState.find_empty_slot: <<i>> for the 0-based index i, <<>> for
\* None.
FindEmptySlot(slots) ==
    LET empty == {i \in DOMAIN slots :
                     slots[i] = None \/ slots[i].item_id = 0 \/ slots[i].stack = 0}
    IN  IF empty = {} THEN <<>>
        ELSE <<(CHOOSE i \in empty : \A j \in empty : i <= j) - 1>>

\* InventoryState.set_slot
SetSlot(slots, idx, item_id, stack, prefix_id) ==
    IF idx < 0 \/ idx >= Len(slots) THEN slots
    ELSE [slots EXCEPT ![idx + 1] =
             [item_id |-> item_id, stack |-> stack, prefix_id |-> prefix_id]]

(***************************************************************************)
(* main.py: the packets the client sends.  A sent packet is noted by its   *)
(* type and the arguments the handlers choose for it.                      *)
(***************************************************************************)
Pkt(t, args) == [type |-> t, args |-> args]

\* login, from the appearance packet to the world-info request.
PostApprovalPackets(slot) ==
    <<Pkt(MSG_APPEARANCE, <<slot>>), Pkt(MSG_UUID, <<>>), Pkt(MSG_LIFE, <<slot>>),
      Pkt(MSG_MANA, <<slot>>), Pkt(MSG_BUFFS, <<slot>>), Pkt(MSG_LOADOUT, <<>>)>>
    \o [i \in 1 .. InventoryCount |-> Pkt(MSG_INVENTORY, <<slot, i - 1>>)]
    \o <<Pkt(MSG_REQUEST_WORLD, <<>>)>>

\* The loop variables a message handler works on.
Locals ==
    [state |-> state, pending |-> pending, inventory |-> inventory, sent |-> sent,
     xy |-> xy, raised |-> ""]

Raise(S, e) == [S EXCEPT !.raised = e]

\* try_pickup_reserved_items over the snapshot list(state.items.items()).
RECURSIVE TryPickup(_, _, _, _)
TryPickup(S, snapshot, slot, pos) ==
    IF snapshot = <<>> THEN S
    ELSE LET item == Head(snapshot)
             dx == item.position_x - pos[1]
             dy == item.position_y - pos[2]
             free == FindEmptySlot(S.inventory)
         IN  IF item.owner # <<slot>> THEN TryPickup(S, Tail(snapshot), slot, pos)
             ELSE IF dx * dx + dy * dy > PickupRadius * PickupRadius
                  THEN TryPickup(S, Tail(snapshot), slot, pos)
             ELSE IF item.item_id = 0 \/ item.stack <= 0
                  THEN TryPickup(S, Tail(snapshot), slot, pos)
             ELSE IF free = <<>> THEN S
             ELSE TryPickup(
                      [S EXCEPT
                          !.sent = @ \o <<Pkt(MSG_INVENTORY, <<slot, free[1]>>),
                                          Pkt(MSG_REMOVE_ITEM, <<item.item_slot>>)>>,
                          !.inventory = SetSlot(@, free[1], item.item_id, item.stack,
                                                item.prefix_id),
                          !.state = RemoveItem(@, item.item_slot)],
                      Tail(snapshot), slot, pos)

\* state.player_pos.get(player_slot) or fallback
PosOr(st, slot, fallback) ==
    IF slot \in DOMAIN st.player_pos THEN st.player_pos[slot] ELSE fallback

\* decode_teleport(payload): ByteReader needs a bytes object; on a Container
\* or on the fallback namespace the first read raises (len() or the slice).
DecodeTeleport(payload) ==
    IF payload.kind # "bytes" THEN [ok |-> FALSE, err |-> "TypeError"]
    ELSE LET raw == payload.raw
             bits == At(raw, 0)
         IN  IF Len(raw) < 12 + Size(Bit(bits, 8), 4)
             THEN [ok |-> FALSE, err |-> "EOFError"]
             ELSE [ok |-> TRUE,
                   mode |-> Size(Bit(bits, 1), 1) + Size(Bit(bits, 2), 2),
                   target |-> ReadInt16(raw, 1),
                   style |-> At(raw, 11),
                   extra |-> IF Bit(bits, 8) THEN <<ReadInt32(raw, 12)>> ELSE <<>>]

\* The $0A arm without its try/except.
OnTileSection_Uncaught(S, section) ==
    IF section.ok THEN [S EXCEPT !.state = UpdateTileSection(@, section)]
    ELSE Raise(S, section.err)

\* The $0A arm: update_tile_section unless parse_tile_section raised.
OnTileSection(S, section) ==
    IF section.ok THEN [S EXCEPT !.state = UpdateTileSection(@, section)] ELSE S

\* The $16 arm after update_item_owner: the pickup at the player's position.
OnItemOwner(T, slot, fallback_pos) ==
    TryPickup(T, T.state.items, slot, PosOr(T.state, slot, fallback_pos))

\* teleport_tracker.sent, then the acknowledgement when the target is the
\* own slot.
OnTeleportSent(T, target, slot) ==
    IF target = slot
    THEN [T EXCEPT !.sent = Append(@, Pkt(MSG_TELEPORT, <<target>>)),
                   !.pending = TrackerAck(@, target).pending]
    ELSE T

\* The $41 arm on what decode_teleport returned.
OnTeleport(S, info, slot) ==
    IF ~info.ok THEN Raise(S, info.err)
    ELSE IF info.mode \in {0, 2}
    THEN OnTeleportSent([S EXCEPT !.pending = TrackerSent(@, info.target).pending],
                        info.target, slot)
    ELSE IF info.mode = 3
    THEN [S EXCEPT !.pending = TrackerAck(@, info.target).pending]
    ELSE S

\* The elif chain on msg.type shared by the wait-for-spawn loop of login and
\* the poll loop of idle_loop (in_idle_loop), which differ on $0D.  The arms
\* that only print are left out.
HandleWorldMsg(S, m, slot, fallback_pos, in_idle_loop) ==
    CASE m.type = MSG_TILE_SECTION ->
           OnTileSection(S, ParseTileSection(m.payload, TileFrameImportant))
      [] m.type = MSG_ITEM ->
           IF m.payload.kind # "record" THEN Raise(S, "AttributeError")
           ELSE [S EXCEPT !.state = UpdateItem(@,
                    [item_slot |-> m.payload.f[1], position_x |-> m.payload.f[2],
                     position_y |-> m.payload.f[3], stack |-> m.payload.f[4],
                     prefix_id |-> m.payload.f[5], item_id |-> m.payload.f[6],
                     owner |-> <<>>])]
      [] m.type = MSG_ITEM_OWNER ->
           IF m.payload.kind # "record" THEN Raise(S, "AttributeError")
           ELSE OnItemOwner(
                    [S EXCEPT !.state = UpdateItemOwner(@, m.payload.f[1], m.payload.f[2])],
                    slot, IF in_idle_loop THEN S.xy ELSE fallback_pos)
      [] m.type = MSG_REMOVE_ITEM ->
           IF m.payload.kind = "bytes" /\ Len(m.payload.raw) >= 2
           THEN [S EXCEPT !.state = RemoveItem(@, ReadInt16(m.payload.raw, 0))]
           ELSE S
      [] m.type = MSG_NPC ->
           IF m.payload.kind # "record" THEN Raise(S, "AttributeError")
           ELSE [S EXCEPT !.state = UpdateNpc(@, [npc_slot |-> m.payload.f[1]])]
      [] m.type = MSG_PLAYER_CONTROLS ->
           IF m.payload.kind # "record" THEN Raise(S, "AttributeError")
           ELSE IF ~in_idle_loop
                THEN [S EXCEPT !.state = UpdatePlayerPos(@, m.payload.f[1],
                                             m.payload.f[2], m.payload.f[3])]
           ELSE IF m.payload.f[1] = slot
                THEN [S EXCEPT !.xy = <<m.payload.f[2], m.payload.f[3]>>,
                               !.state = UpdatePlayerPos(@, slot, m.payload.f[2],
                                             m.payload.f[3])]
           ELSE S
      [] m.type = MSG_TELEPORT -> OnTeleport(S, DecodeTeleport(m.payload), slot)
      [] OTHER -> S

\* for msg in msgs: the handlers in order, until one raises.
RECURSIVE HandleAll(_, _, _, _, _)
HandleAll(S, msgs, slot, fallback_pos, in_idle_loop) ==
    IF msgs = <<>> \/ S.raised # "" THEN S
    ELSE HandleAll(HandleWorldMsg(S, Head(msgs), slot, fallback_pos, in_idle_loop),
                   Tail(msgs), slot, fallback_pos, in_idle_loop)

(***************************************************************************)
(* The framer driven by a peer: the stream is fed in arbitrary chunks and  *)
(* _next_message is called at arbitrary moments.                           *)
(***************************************************************************)
FrameTypes == {MSG_APPROVED, MSG_REMOVE_ITEM}

\* Payloads of the valid frames: empty, one byte, two bytes that read as a
\* length field, and three bytes that read as a whole frame.
FramePayloads == {<<>>, <<0>>, <<3, 0>>, <<3, 0, MSG_REMOVE_ITEM>>}

ValidFrames == {BuildRawPacket(t, p) : t \in FrameTypes, p \in FramePayloads}

RawBytes == 0 .. MaxRawByte

NoError == [kind |-> "", text |-> <<>>]

\* The session variables of a run that only drives the framer.
NoSession ==
    /\ closed = FALSE
    /\ srv_count = 0
    /\ pc = "NoSession"
    /\ password = None
    /\ worldinfo_retry = 0
    /\ sent = <<>>
    /\ player_slot = 0
    /\ world_info = None
    /\ state = NewWorldState
    /\ pending = NoPending
    /\ inventory = <<>>
    /\ xy = <<0, 0>>
    /\ now = 0
    /\ last_worldinfo_send = 0
    /\ error = NoError
    /\ batch = <<>>
    /\ seen = 0
    /\ gotFatal = FALSE
    /\ lastArrival = 0

\* The variables of the tracker and decoder harnesses in a run that does not
\* drive them.
NoCall ==
    /\ polled = None
    /\ arg = None
    /\ res = None
    /\ proxy = None

NoUnit ==
    /\ calls = <<>>
    /\ blob = <<>>
    /\ important = {}
    /\ parsed = None
    /\ NoCall

InitFramer ==
    /\ NoSession
    /\ NoUnit
    /\ frames \in SeqsUpTo(ValidFrames, MaxFrames)
    /\ wire = Concat(frames)
    /\ buf = <<>>
    /\ out = <<>>
    /\ op = "init"
    /\ ret = [msg |-> None, length |-> 0]
    /\ buf0 = <<>>

InitRaw ==
    /\ NoSession
    /\ NoUnit
    /\ \E s \in SeqsUpTo(RawBytes, MaxRawLen) :
          /\ frames = <<s>>
          /\ wire = s
    /\ buf = <<>>
    /\ out = <<>>
    /\ op = "init"
    /\ ret = [msg |-> None, length |-> 0]
    /\ buf0 = <<>>

\* The caller reads a chunk of k bytes and feeds it.
Feed ==
    \E k \in 1 .. Len(wire) :
        /\ buf' = FeedBuf(buf, Take(wire, k))
        /\ wire' = Drop(wire, k)
        /\ op' = "feed"
        /\ buf0' = buf
        /\ UNCHANGED <<frames, out, ret>>
        /\ UNCHANGED sessionVars
        /\ UNCHANGED unitVars

\* The caller calls _next_message.
Call ==
    /\ Len(out) < MaxOut
    /\ LET r == NextMessage(buf)
       IN  /\ buf' = r.buf
           /\ ret' = [msg |-> r.msg, length |-> r.length]
           /\ out' = IF r.msg = None THEN out ELSE Append(out, r.msg)
    /\ op' = "call"
    /\ buf0' = buf
    /\ UNCHANGED <<wire, frames>>
    /\ UNCHANGED sessionVars
    /\ UNCHANGED unitVars

FramerNext == Feed \/ Call

SpecFramer == InitFramer /\ [][FramerNext]_vars

SpecRaw == InitRaw /\ [][FramerNext]_vars

(***************************************************************************)
(* A TeleportTracker driven by a caller: sent and ack are called in any    *)
(* order with any of the targets.                                          *)
(***************************************************************************)
Targets == {0, 5}

\* The stream variables of a run that does not drive the framer.
NoStream ==
    /\ wire = <<>>
    /\ buf = <<>>
    /\ frames = <<>>
    /\ out = <<>>
    /\ ret = [msg |-> None, length |-> 0]
    /\ buf0 = <<>>

\* TeleportTracker.__init__
InitTracker ==
    /\ NoSession
    /\ NoStream
    /\ NoUnit
    /\ op = "init"

\* The record of one call: the count of the target before and after it and
\* the value returned.
CallRecord(fn, target, before, r) ==
    [fn |-> fn, target |-> target, before |-> before,
     after |-> PendingOf(r.pending, target), result |-> r.result]

\* The caller calls teleport_tracker.sent(t).
SentCall ==
    /\ Len(calls) < MaxCalls
    /\ \E t \in Targets :
       \E r \in {TrackerSent(pending, t)} :
           /\ pending' = r.pending
           /\ calls' = Append(calls, CallRecord("sent", t, PendingOf(pending, t), r))
    /\ op' = "sent"
    /\ UNCHANGED <<wire, buf, frames, closed, srv_count, pc, password, worldinfo_retry, sent,
                   player_slot, world_info, state, inventory, xy, now,
                   last_worldinfo_send, error, batch, seen, gotFatal, lastArrival>>
    /\ UNCHANGED <<blob, important, parsed>>
    /\ UNCHANGED callVars
    /\ UNCHANGED frameVars

\* The caller calls teleport_tracker.ack(t).
AckCall ==
    /\ Len(calls) < MaxCalls
    /\ \E t \in Targets :
       \E r \in {TrackerAck(pending, t)} :
           /\ pending' = r.pending
           /\ calls' = Append(calls, CallRecord("ack", t, PendingOf(pending, t), r))
    /\ op' = "ack"
    /\ UNCHANGED <<wire, buf, frames, closed, srv_count, pc, password, worldinfo_retry, sent,
                   player_slot, world_info, state, inventory, xy, now,
                   last_worldinfo_send, error, batch, seen, gotFatal, lastArrival>>
    /\ UNCHANGED <<blob, important, parsed>>
    /\ UNCHANGED callVars
    /\ UNCHANGED frameVars

TrackerNext == SentCall \/ AckCall

SpecTracker == InitTracker /\ [][TrackerNext]_vars

(***************************************************************************)
(* parse_tile_section called on a payload: the zlib marker, a header and   *)
(* cell bytes, or too few bytes for a header.                              *)
(***************************************************************************)
\* Cell bytes: an empty cell (0), an active cell or a run of 2 (2), a tile
\* type (5), an active cell with a one-byte run (66) and one with a two-byte
\* run (130).
CellBytes == {0, 2, 5, 64, 66, 130}

\* Sections at (1, 2): 3 x 1 and 2 x 2.
TileHeaders ==
    {<<1, 0, 0, 0, 2, 0, 0, 0, 3, 0, 1, 0>>, <<1, 0, 0, 0, 2, 0, 0, 0, 2, 0, 2, 0>>}

\* The first byte of a payload: a zlib stream (120) or bytes zlib rejects.
TilePrefixes == {<<120>>, <<0>>}

\* The payload of a 5 x 1 section at (1, 2): an active cell of type 5, an
\* inactive cell with a run of 1, an active cell of type 2 with a run of 1.
LastCellExample ==
    <<120, 1, 0, 0, 0, 2, 0, 0, 0, 5, 0, 1, 0, 2, 5, 64, 1, 66, 2, 1>>

TileInputs ==
    {p \o h \o c : p \in TilePrefixes, h \in TileHeaders,
                    c \in SeqsUpTo(CellBytes, MaxCellBytes)}
    \cup {<<>>, <<120>>, <<120, 1, 0, 0, 0>>, LastCellExample}

InitTiles ==
    /\ NoSession
    /\ NoStream
    /\ calls = <<>>
    /\ op = "init"
    /\ blob \in TileInputs
    /\ important \in {{}, TileFrameImportant}
    /\ parsed = None
    /\ NoCall

\* The caller calls parse_tile_section(blob, important).
ParseCall ==
    /\ op = "init"
    /\ parsed' = ParseTileSection([kind |-> "bytes", raw |-> blob], important)
    /\ op' = "parse"
    /\ UNCHANGED <<wire, buf, frames, calls, blob, important>>
    /\ UNCHANGED sessionVars
    /\ UNCHANGED frameVars
    /\ UNCHANGED callVars

TilesNext == ParseCall

SpecTiles == InitTiles /\ [][TilesNext]_vars

(***************************************************************************)
(* main.py: TerrariaClient.login and idle_loop against a server.  wire     *)
(* holds the bytes the server has written and the client has not read yet, *)
(* srv_count counts the frames written.                                    *)
(***************************************************************************)
\* A valid tile blob: the zlib header byte, the 12-byte header of a 1x1
\* section at (0, 0) and one active cell of type 5.
TileBlob == <<120, 0, 0, 0, 0, 0, 0, 0, 0, 1, 0, 1, 0, 2, 5>>

\* What the server may write: well-formed frames, and frames whose payload is
\* too short for the schema of their type.
SrvMenu ==
    { <<MSG_REQUEST_PASSWORD, <<>>>>,
      <<MSG_FATAL_ERROR, <<1, 66>>>>,
      <<MSG_FATAL_ERROR, <<2, 66>>>>,
      <<MSG_APPROVED, <<1, 0>>>>,
      <<MSG_WORLD_INFO, <<2, 1>>>>,
      <<MSG_SPAWN, <<>>>>,
      <<MSG_TILE_SECTION, TileBlob>>,
      <<MSG_NPC, <<3>>>> }

SrvFrames == {BuildRawPacket(e[1], e[2]) : e \in SrvMenu}

Terminal == {"Failed", "Crashed"}

\* The frames written by the server and not yet returned by the stream.
InFlight == Len(PollMessages(buf \o wire, MaxSrvMsgs).msgs)

\* SystemExit without the text of the server.
Exit_DropsText(text) == [kind |-> "SystemExit", text |-> <<>>]

\* raise SystemExit(f"...: {msg.payload.error}")
Exit(text) == [kind |-> "SystemExit", text |-> text]

Exception(name) == [kind |-> name, text |-> <<>>]

\* How many bytes of the wire one recv may return: all that is there (the
\* framer is driven chunk by chunk under SpecFramer and SpecRaw).
ChunkSizes(w) == {Len(w)} \ {0}

Init ==
    /\ wire = <<>>
    /\ buf = <<>>
    /\ frames = <<>>
    /\ out = <<>>
    /\ op = "init"
    /\ ret = [msg |-> None, length |-> 0]
    /\ buf0 = <<>>
    /\ closed = FALSE
    /\ srv_count = 0
    /\ pc = "Connecting"
    /\ password \in {None, [value |-> "secret"]}
    /\ worldinfo_retry \in 0 .. MaxRetry
    /\ sent = <<>>
    /\ player_slot = 0
    /\ world_info = None
    /\ state = NewWorldState
    /\ pending = NoPending
    /\ inventory = [i \in 1 .. InventoryCount |-> None]
    /\ xy = <<0, 0>>
    /\ now = 0
    /\ last_worldinfo_send = 0
    /\ error = NoError
    /\ batch = <<>>
    /\ seen = 0
    /\ gotFatal = FALSE
    /\ lastArrival = 0
    /\ NoUnit

\* login up to the first recv_message: the connect request.
Connect ==
    /\ pc = "Connecting"
    /\ pc' = "AwaitApproval"
    /\ sent' = Append(sent, Pkt(MSG_CONNECT, <<>>))
    /\ op' = "connect"
    /\ UNCHANGED <<wire, buf, frames, closed, srv_count, password, worldinfo_retry, player_slot,
                   world_info, state, pending, inventory, xy, now, last_worldinfo_send,
                   error, batch, seen, gotFatal, lastArrival>>
    /\ UNCHANGED frameVars
    /\ UNCHANGED unitVars

\* The server writes one more frame.
SrvSend ==
    /\ pc \notin {"Connecting"} \cup Terminal
    /\ ~closed
    /\ srv_count < MaxSrvMsgs
    /\ InFlight < MaxInFlight
    /\ \E f \in SrvFrames : wire' = wire \o f
    /\ srv_count' = srv_count + 1
    /\ op' = "srv_send"
    /\ UNCHANGED <<buf, frames, closed, pc, password, worldinfo_retry, sent, player_slot,
                   world_info, state, pending, inventory, xy, now, last_worldinfo_send,
                   error, batch, seen, gotFatal, lastArrival>>
    /\ UNCHANGED frameVars
    /\ UNCHANGED unitVars

\* The server closes the connection.
SrvClose ==
    /\ pc \notin {"Connecting"} \cup Terminal
    /\ ~closed
    /\ closed' = TRUE
    /\ op' = "srv_close"
    /\ UNCHANGED <<wire, buf, frames, srv_count, pc, password, worldinfo_retry, sent,
                   player_slot, world_info, state, pending, inventory, xy, now,
                   last_worldinfo_send, error, batch, seen, gotFatal, lastArrival>>
    /\ UNCHANGED frameVars
    /\ UNCHANGED unitVars

\* The reply script of a server that approves, describes the world and
\* spawns the player.
Script ==
    <<BuildRawPacket(MSG_APPROVED, <<1, 0>>), BuildRawPacket(MSG_WORLD_INFO, <<2, 1>>),
      BuildRawPacket(MSG_SPAWN, <<>>)>>

\* The scripted server writes its next reply.
SrvScript ==
    /\ pc \notin {"Connecting"} \cup Terminal
    /\ ~closed
    /\ srv_count < Len(Script)
    /\ wire' = wire \o Script[srv_count + 1]
    /\ srv_count' = srv_count + 1
    /\ op' = "srv_send"
    /\ UNCHANGED <<buf, frames, closed, pc, password, worldinfo_retry, sent, player_slot,
                   world_info, state, pending, inventory, xy, now, last_worldinfo_send,
                   error, batch, seen, gotFatal, lastArrival>>
    /\ UNCHANGED frameVars
    /\ UNCHANGED unitVars

Blocking == {"AwaitApproval", "AwaitApprovalPw", "AwaitSpawn"}

\* recv_message with no whole message buffered: sock.recv, then _feed, or
\* ConnectionError on the empty chunk of a closed connection.
RecvChunk ==
    /\ pc \in Blocking
    /\ NextMessage(buf).msg = None
    /\ \/ /\ wire # <<>>
          /\ \E k \in ChunkSizes(wire) :
                /\ buf' = FeedBuf(buf, Take(wire, k))
                /\ wire' = Drop(wire, k)
          /\ UNCHANGED <<pc, error>>
       \/ /\ wire = <<>>
          /\ closed
          /\ pc' = "Crashed"
          /\ error' = Exception("ConnectionError")
          /\ UNCHANGED <<wire, buf>>
    /\ op' = "recv"
    /\ UNCHANGED <<frames, closed, srv_count, password, worldinfo_retry, sent, player_slot,
                   world_info, state, pending, inventory, xy, now, last_worldinfo_send,
                   batch, seen, gotFatal, lastArrival>>
    /\ UNCHANGED frameVars
    /\ UNCHANGED unitVars

\* login without its assert: any message with a payload that parses is taken
\* for the approval.
Decide_NoAssert(m) ==
    IF m.type = MSG_FATAL_ERROR
    THEN /\ IF m.payload.kind = "record"
            THEN pc' = "Failed" /\ error' = Exit(Tail(m.payload.f))
            ELSE pc' = "Crashed" /\ error' = Exception("AttributeError")
         /\ UNCHANGED <<sent, player_slot, inventory, last_worldinfo_send>>
    ELSE IF m.payload.kind # "record" \/ m.payload.f = <<>>
    THEN /\ pc' = "Crashed"
         /\ error' = Exception("AttributeError")
         /\ UNCHANGED <<sent, player_slot, inventory, last_worldinfo_send>>
    ELSE /\ player_slot' = m.payload.f[1]
         /\ sent' = sent \o PostApprovalPackets(m.payload.f[1])
         /\ inventory' = [i \in 1 .. InventoryCount |->
                             [item_id |-> 0, stack |-> 0, prefix_id |-> 0]]
         /\ last_worldinfo_send' = now
         /\ pc' = "AwaitWorldInfo"
         /\ UNCHANGED error

\* login after a message other than the first request-password: the $02
\* check, the assert, the approved slot and the sends up to the world-info
\* request.
Decide(m) ==
    IF m.type = MSG_FATAL_ERROR
    THEN /\ IF m.payload.kind = "record"
            THEN pc' = "Failed" /\ error' = Exit(Tail(m.payload.f))
            ELSE pc' = "Crashed" /\ error' = Exception("AttributeError")
         /\ UNCHANGED <<sent, player_slot, inventory, last_worldinfo_send>>
    ELSE IF m.type # MSG_APPROVED
    THEN /\ pc' = "Crashed"
         /\ error' = Exception("AssertionError")
         /\ UNCHANGED <<sent, player_slot, inventory, last_worldinfo_send>>
    ELSE IF m.payload.kind # "record"
    THEN /\ pc' = "Crashed"
         /\ error' = Exception("AttributeError")
         /\ UNCHANGED <<sent, player_slot, inventory, last_worldinfo_send>>
    ELSE /\ player_slot' = m.payload.f[1]
         /\ sent' = sent \o PostApprovalPackets(m.payload.f[1])
         /\ inventory' = [i \in 1 .. InventoryCount |->
                             [item_id |-> 0, stack |-> 0, prefix_id |-> 0]]
         /\ last_worldinfo_send' = now
         /\ pc' = "AwaitWorldInfo"
         /\ UNCHANGED error

\* login on the message returned by one of its first two recv_message calls.
ApprovalStep ==
    /\ pc \in {"AwaitApproval", "AwaitApprovalPw"}
    /\ \E r \in {NextMessage(buf)} :
           /\ r.msg # None
           /\ buf' = r.buf
           /\ gotFatal' = (gotFatal \/ r.msg.type = MSG_FATAL_ERROR)
           /\ IF pc = "AwaitApproval" /\ r.msg.type = MSG_REQUEST_PASSWORD
              THEN /\ IF password = None
                      THEN /\ pc' = "Crashed"
                           /\ error' = Exception("StringError")
                           /\ UNCHANGED sent
                      ELSE /\ pc' = "AwaitApprovalPw"
                           /\ sent' = Append(sent, Pkt(MSG_PASSWORD, <<>>))
                           /\ UNCHANGED error
                   /\ UNCHANGED <<player_slot, inventory, last_worldinfo_send>>
              ELSE Decide(r.msg)
    /\ op' = "approval"
    /\ lastArrival' = now
    /\ UNCHANGED <<wire, frames, closed, srv_count, password, worldinfo_retry, world_info,
                   state, pending, xy, now, batch, seen>>
    /\ UNCHANGED frameVars
    /\ UNCHANGED unitVars

\* The index of the first message of type $02 or $07, or 0.
FirstDecisive(msgs) ==
    LET hits == {i \in DOMAIN msgs : msgs[i].type \in {MSG_FATAL_ERROR, MSG_WORLD_INFO}}
    IN  IF hits = {} THEN 0 ELSE CHOOSE i \in hits : \A j \in hits : i <= j

\* The fallback position in tiles instead of pixels.
SpawnPos_InTiles(info) == <<info.f[1], info.f[2]>>

\* world_info.spawn_tile_x * 16.0, world_info.spawn_tile_y * 16.0
SpawnPos(info) == <<info.f[1] * 16, info.f[2] * 16>>

\* The world-info loop on a batch whose first decisive message is m.
OnDecisive(m) ==
    IF m.payload.kind # "record"
    THEN /\ pc' = "Crashed"
         /\ error' = Exception("AttributeError")
         /\ world_info' = IF m.type = MSG_WORLD_INFO THEN m.payload ELSE world_info
         /\ UNCHANGED <<sent, last_worldinfo_send, state>>
    ELSE IF m.type = MSG_FATAL_ERROR
    THEN /\ pc' = "Failed"
         /\ error' = Exit(Tail(m.payload.f))
         /\ UNCHANGED <<sent, last_worldinfo_send, world_info, state>>
    ELSE /\ world_info' = m.payload
         /\ state' = UpdatePlayerPos(state, player_slot, SpawnPos(m.payload)[1],
                         SpawnPos(m.payload)[2])
         /\ sent' = Append(sent, Pkt(MSG_REQUEST_TILES, m.payload.f))
         /\ pc' = "AwaitSpawn"
         /\ UNCHANGED <<error, last_worldinfo_send>>

\* The re-send check with the timer running from the last message instead
\* of from the last request.
OnEmptyBatch_SinceLastMessage ==
    /\ IF worldinfo_retry # 0 /\ now - lastArrival > worldinfo_retry
       THEN /\ sent' = Append(sent, Pkt(MSG_REQUEST_WORLD, <<>>))
            /\ last_worldinfo_send' = now
       ELSE UNCHANGED <<sent, last_worldinfo_send>>
    /\ UNCHANGED <<pc, error, world_info, state>>

\* The world-info loop on an empty batch: the re-send check.
OnEmptyBatch ==
    /\ IF worldinfo_retry # 0 /\ now - last_worldinfo_send > worldinfo_retry
       THEN /\ sent' = Append(sent, Pkt(MSG_REQUEST_WORLD, <<>>))
            /\ last_worldinfo_send' = now
       ELSE UNCHANGED <<sent, last_worldinfo_send>>
    /\ UNCHANGED <<pc, error, world_info, state>>

\* One round of the world-info loop of login: poll_messages, then the
\* re-send check on an empty batch or the scan of the batch; on world info,
\* the code between the loop and the wait for spawn.
WorldInfoPoll ==
    /\ pc = "AwaitWorldInfo"
    /\ \E k \in {0} \cup ChunkSizes(wire) :
       \E r \in {PollMessages(FeedBuf(buf, Take(wire, k)), PollMax)} :
       \E i \in {FirstDecisive(r.msgs)} :
            /\ wire' = Drop(wire, k)
            /\ IF closed /\ k = Len(wire)
               THEN /\ buf' = FeedBuf(buf, Take(wire, k))
                    /\ pc' = "Crashed"
                    /\ error' = Exception("ConnectionError")
                    /\ UNCHANGED <<sent, last_worldinfo_send, world_info, state, batch,
                                   seen, gotFatal, lastArrival>>
               ELSE /\ buf' = r.buf
                    /\ batch' = r.msgs
                    /\ seen' = IF i = 0 THEN Len(r.msgs) ELSE i
                    /\ lastArrival' = IF r.msgs = <<>> THEN lastArrival ELSE now
                    /\ gotFatal' = (gotFatal \/ (i # 0 /\ r.msgs[i].type = MSG_FATAL_ERROR))
                    /\ IF r.msgs = <<>> THEN OnEmptyBatch
                       ELSE IF i = 0
                       THEN UNCHANGED <<pc, error, sent, last_worldinfo_send, world_info,
                                        state>>
                       ELSE OnDecisive(r.msgs[i])
    /\ op' = "poll_worldinfo"
    /\ UNCHANGED <<frames, closed, srv_count, password, worldinfo_retry, player_slot,
                   pending, inventory, xy, now>>
    /\ UNCHANGED frameVars
    /\ UNCHANGED unitVars

\* time.time() moves on while the client waits for world info.
Tick ==
    /\ pc = "AwaitWorldInfo"
    /\ now < MaxTime
    /\ now' = now + 1
    /\ op' = "tick"
    /\ UNCHANGED <<wire, buf, frames, closed, srv_count, pc, password, worldinfo_retry, sent,
                   player_slot, world_info, state, pending, inventory, xy,
                   last_worldinfo_send, error, batch, seen, gotFatal, lastArrival>>
    /\ UNCHANGED frameVars
    /\ UNCHANGED unitVars

\* login after the wait for spawn with the spawn packet left at the origin.
EnterWorld_SpawnAtOrigin(S) ==
    TryPickup(
        [S EXCEPT !.sent = @ \o <<Pkt(MSG_PLAYER_SPAWN, <<player_slot, 0, 0>>),
                                  Pkt(MSG_NETMODULE, <<>>)>>,
                  !.xy = SpawnPos(world_info)],
        S.state.items, player_slot, SpawnPos(world_info))

\* login after the wait for spawn: the spawn packet, the chat message, the
\* position taken from world info and the pickup at it (neither explore nor
\* move_right; stay_connected enters idle_loop).
EnterWorld(S) ==
    TryPickup(
        [S EXCEPT !.sent = @ \o <<Pkt(MSG_PLAYER_SPAWN, <<player_slot>> \o world_info.f),
                                  Pkt(MSG_NETMODULE, <<>>)>>,
                  !.xy = SpawnPos(world_info)],
        S.state.items, player_slot, SpawnPos(world_info))

\* The loop variables after a handler, or after the keep-alive, ran.
Store(T) ==
    /\ state' = T.state
    /\ pending' = T.pending
    /\ inventory' = T.inventory
    /\ sent' = T.sent
    /\ xy' = T.xy

\* One round of the wait-for-spawn loop of login.
SpawnStep ==
    /\ pc = "AwaitSpawn"
    /\ NextMessage(buf).msg # None
    /\ \E r \in {NextMessage(buf)} :
       \E S \in {HandleWorldMsg(Locals, r.msg, player_slot, SpawnPos(world_info), FALSE)} :
           /\ buf' = r.buf
           /\ gotFatal' = (gotFatal \/ r.msg.type = MSG_FATAL_ERROR)
           /\ IF S.raised # ""
              THEN /\ pc' = "Crashed"
                   /\ error' = Exception(S.raised)
                   /\ Store(S)
              ELSE IF r.msg.type \in {MSG_SPAWN, MSG_PLAYER_SPAWN}
              THEN /\ pc' = "Playing"
                   /\ Store(EnterWorld(S))
                   /\ UNCHANGED error
              ELSE /\ Store(S)
                   /\ UNCHANGED <<pc, error>>
    /\ op' = "spawn_step"
    /\ lastArrival' = now
    /\ UNCHANGED <<wire, frames, closed, srv_count, password, worldinfo_retry, player_slot,
                   world_info, now, last_worldinfo_send, batch, seen>>
    /\ UNCHANGED frameVars
    /\ UNCHANGED unitVars

KeepAlives(s) == Cardinality({i \in DOMAIN s : s[i].type = MSG_PLAYER_CONTROLS})

\* try_pickup_reserved_items at state.player_pos.get(player_slot)
PickupAtOwnPos(U) ==
    TryPickup(U, U.state.items, player_slot, U.state.player_pos[player_slot])

\* The keep-alive branch of idle_loop.
KeepAlive(S) ==
    [PickupAtOwnPos([S EXCEPT !.state = UpdatePlayerPos(@, player_slot, S.xy[1], S.xy[2])])
        EXCEPT !.sent = Append(@, Pkt(MSG_PLAYER_CONTROLS, <<player_slot>> \o S.xy))]

\* One round of idle_loop: poll_messages, the handlers over the batch, then
\* the keep-alive when the interval has run out (due).
PlayingPoll ==
    /\ pc = "Playing"
    /\ \E k \in {0} \cup ChunkSizes(wire), due \in BOOLEAN :
       \E r \in {PollMessages(FeedBuf(buf, Take(wire, k)), PollMax)} :
       \E S \in {HandleAll(Locals, r.msgs, player_slot, xy, TRUE)} :
            /\ due => KeepAlives(sent) < MaxIdleSends
            /\ wire' = Drop(wire, k)
            /\ IF closed /\ k = Len(wire)
               THEN /\ buf' = FeedBuf(buf, Take(wire, k))
                    /\ pc' = "Crashed"
                    /\ error' = Exception("ConnectionError")
                    /\ UNCHANGED <<state, pending, inventory, sent, xy, batch, seen,
                                   lastArrival>>
               ELSE /\ buf' = r.buf
                    /\ batch' = r.msgs
                    /\ seen' = Len(r.msgs)
                    /\ lastArrival' = IF r.msgs = <<>> THEN lastArrival ELSE now
                    /\ IF S.raised # ""
                       THEN /\ pc' = "Crashed"
                            /\ error' = Exception(S.raised)
                            /\ Store(S)
                       ELSE /\ UNCHANGED <<pc, error>>
                            /\ Store(IF due THEN KeepAlive(S) ELSE S)
    /\ op' = "poll_playing"
    /\ UNCHANGED <<frames, closed, srv_count, password, worldinfo_retry, player_slot,
                   world_info, now, last_worldinfo_send, gotFatal>>
    /\ UNCHANGED frameVars
    /\ UNCHANGED unitVars

Next ==
    \/ Connect
    \/ SrvSend
    \/ SrvClose
    \/ RecvChunk
    \/ ApprovalStep
    \/ WorldInfoPoll
    \/ Tick
    \/ SpawnStep
    \/ PlayingPoll

Spec == Init /\ [][Next]_vars

NextScripted ==
    \/ Connect
    \/ SrvScript
    \/ SrvClose
    \/ RecvChunk
    \/ ApprovalStep
    \/ WorldInfoPoll
    \/ Tick
    \/ SpawnStep
    \/ PlayingPoll

SpecScripted == Init /\ [][NextScripted]_vars

(***************************************************************************)
(* login and idle_loop against a server that keeps the protocol order      *)
(* (approval, world info, then the world) but may cut payloads short.      *)
(***************************************************************************)
\* A tile payload zlib rejects: no zlib header and no stored block.
BadZlibBlob == <<0, 0, 0, 0, 0, 0, 0, 0, 0, 1, 0, 1, 0>>

\* A tile payload whose cell data ends early: the header of a 1 x 1 section
\* and an active cell without its type byte.
ShortTileBlob == <<120, 0, 0, 0, 0, 0, 0, 0, 0, 1, 0, 1, 0, 2>>

\* What the server writes once the world is described; the teleports are
\* of mode 0 to slot 1 and of mode 3 (flag bits 0 and 1) to slot 5.
WorldMenu ==
    { <<MSG_SPAWN, <<>>>>,
      <<MSG_TILE_SECTION, BadZlibBlob>>,
      <<MSG_TILE_SECTION, ShortTileBlob>>,
      <<MSG_NPC, <<3>>>>,
      <<MSG_TELEPORT, <<0, 1, 0, 0>>>>,
      <<MSG_TELEPORT, <<3, 5, 0, 0>>>> }

\* The n-th frame of the server is the approval, then world info (each whole
\* or cut short), then anything of the world menu.
WorldChoices(n) ==
    CASE n = 0 -> {<<MSG_APPROVED, <<1, 0>>>>, <<MSG_APPROVED, <<1>>>>}
      [] n = 1 -> {<<MSG_WORLD_INFO, <<2, 1>>>>, <<MSG_WORLD_INFO, <<2>>>>}
      [] OTHER -> WorldMenu

InitWorld ==
    /\ Init
    /\ password = None
    /\ worldinfo_retry = 0

\* The server writes its next frame.
SrvWorld ==
    /\ pc \notin {"Connecting"} \cup Terminal
    /\ ~closed
    /\ srv_count < MaxWorldMsgs
    /\ InFlight < MaxInFlight
    /\ \E e \in WorldChoices(srv_count) : wire' = wire \o BuildRawPacket(e[1], e[2])
    /\ srv_count' = srv_count + 1
    /\ op' = "srv_send"
    /\ UNCHANGED <<buf, frames, closed, pc, password, worldinfo_retry, sent, player_slot,
                   world_info, state, pending, inventory, xy, now, last_worldinfo_send,
                   error, batch, seen, gotFatal, lastArrival>>
    /\ UNCHANGED frameVars
    /\ UNCHANGED unitVars

NextWorld ==
    \/ Connect
    \/ SrvWorld
    \/ SrvClose
    \/ RecvChunk
    \/ ApprovalStep
    \/ WorldInfoPoll
    \/ SpawnStep
    \/ PlayingPoll

SpecWorld == InitWorld /\ [][NextWorld]_vars

(***************************************************************************)
(* main.py: a PacketStream driven by a caller.  The peer has written the   *)
(* frames; recv_message and poll_messages are called in any order, each    *)
(* call taking off the socket the bytes that have arrived by then.         *)
(***************************************************************************)
\* The first loop of poll_messages: data is what the reads before the socket
\* stops being readable return, eof says that the read after them is a
\* zero-length one.
Drain(b, data, eof) ==
    [raised |-> IF eof THEN "ConnectionError" ELSE "", buf |-> FeedBuf(b, data)]

\* recv_message that takes the bytes left at a zero-length read for a message.
RecvMessage_ParsesRest(b, data) ==
    LET r == NextMessage(FeedBuf(b, data))
    IN  IF r.msg # None THEN [raised |-> "", msgs |-> <<r.msg>>, buf |-> r.buf]
        ELSE [raised |-> "", msgs |-> <<ParseMessage(r.buf)>>, buf |-> <<>>]

\* recv_message framing what it reads on its own, apart from the buffer that
\* poll_messages fills.
RecvMessage_OwnBuffer(b, data) ==
    LET r == NextMessage(IF data = <<>> THEN b ELSE data)
    IN  IF r.msg # None THEN [raised |-> "", msgs |-> <<r.msg>>, buf |-> r.buf]
        ELSE [raised |-> "ConnectionError", msgs |-> <<>>, buf |-> r.buf]

\* PacketStream.recv_message: data is what its reads return before a message
\* is complete; with none complete the read after them is a zero-length one.
RecvMessage(b, data) ==
    LET r == NextMessage(FeedBuf(b, data))
    IN  IF r.msg # None THEN [raised |-> "", msgs |-> <<r.msg>>, buf |-> r.buf]
        ELSE [raised |-> "ConnectionError", msgs |-> <<>>, buf |-> r.buf]

\* The frames of the peer: of both types, without a payload and with one
\* that reads as a whole frame.
StreamFrames == {BuildRawPacket(t, p) : t \in FrameTypes, p \in {<<>>, <<3, 0, MSG_REMOVE_ITEM>>}}

InitStream ==
    /\ NoSession
    /\ NoUnit
    /\ frames \in SeqsUpTo(StreamFrames, MaxFrames)
    /\ wire = Concat(frames)
    /\ buf = <<>>
    /\ out = <<>>
    /\ op = "init"
    /\ ret = [msg |-> None, length |-> 0]
    /\ buf0 = <<>>

StreamUnchanged ==
    UNCHANGED <<ret, srv_count, pc, password, worldinfo_retry, sent, player_slot,
                world_info, state, pending, inventory, xy, now, last_worldinfo_send,
                batch, seen, gotFatal, lastArrival, calls, blob, important, parsed,
                arg, res, proxy>>

\* The caller calls recv_message, which returns once t bytes are read.  A
\* call that finds a whole message buffered reads nothing; a call that finds
\* none before the socket runs dry waits, and comes back only when the peer
\* has closed.
RecvMessageCall ==
    /\ error = NoError
    /\ \E t \in 0 .. Len(wire) :
       \E r \in {RecvMessage(buf, Take(wire, t))} :
           /\ NextMessage(buf).msg # None => t = 0
           /\ r.raised # "" => closed /\ t = Len(wire)
           /\ wire' = Drop(wire, t)
           /\ buf' = r.buf
           /\ out' = out \o r.msgs
           /\ error' = IF r.raised = "" THEN error ELSE Exception(r.raised)
    /\ op' = "recv_message"
    /\ buf0' = buf
    /\ UNCHANGED <<closed, polled, frames>>
    /\ StreamUnchanged

\* The caller calls poll_messages(max) when k bytes are ready.
PollMessagesCall ==
    /\ error = NoError
    /\ \E max \in 0 .. MaxPoll :
       \E k \in 0 .. Len(wire) :
       \E d \in {Drain(buf, Take(wire, k), closed /\ k = Len(wire))} :
       \E r \in {PollMessages(d.buf, max)} :
           /\ wire' = Drop(wire, k)
           /\ buf' = IF d.raised = "" THEN r.buf ELSE d.buf
           /\ out' = IF d.raised = "" THEN out \o r.msgs ELSE out
           /\ polled' = [max |-> max, msgs |-> IF d.raised = "" THEN r.msgs ELSE <<>>]
           /\ error' = IF d.raised = "" THEN error ELSE Exception(d.raised)
    /\ op' = "poll_messages"
    /\ buf0' = buf
    /\ UNCHANGED <<closed, frames>>
    /\ StreamUnchanged

\* The frames of fs that n bytes hold, the last one cut short where they end.
RECURSIVE CutFrames(_, _)
CutFrames(fs, n) ==
    IF n = 0 \/ fs = <<>> THEN <<>>
    ELSE IF n < Len(Head(fs)) THEN <<Take(Head(fs), n)>>
    ELSE <<Head(fs)>> \o CutFrames(Tail(fs), n - Len(Head(fs)))

\* The peer closes the connection, after its last frame or with the last
\* cut bytes of it never written.
PeerClose ==
    /\ ~closed
    /\ closed' = TRUE
    /\ \E cut \in 0 .. Min(MaxCut, Len(wire)) :
          /\ wire' = Take(wire, Len(wire) - cut)
          /\ frames' = CutFrames(frames, Len(Concat(frames)) - cut)
    /\ op' = "close"
    /\ UNCHANGED <<buf, out, buf0, error, polled>>
    /\ StreamUnchanged

StreamNext == RecvMessageCall \/ PollMessagesCall \/ PeerClose

SpecStream == InitStream /\ [][StreamNext]_vars

(***************************************************************************)
(* main.py: poll_messages step by step against a peer that writes while    *)
(* the call runs.  The first loop of poll_messages does not look at the    *)
(* buffer; the model keeps the first MaxBuffered bytes of it, so that a    *)
(* run in which the peer writes for ever is a finite graph.                *)
(***************************************************************************)
DrainFrames == {BuildRawPacket(MSG_APPROVED, <<>>), BuildRawPacket(MSG_REMOVE_ITEM, <<0>>)}

InitDrain ==
    /\ NoStream
    /\ NoUnit
    /\ closed = FALSE
    /\ srv_count = 0
    /\ pc = "Idle"
    /\ password = None
    /\ worldinfo_retry = 0
    /\ sent = <<>>
    /\ player_slot = 0
    /\ world_info = None
    /\ state = NewWorldState
    /\ pending = NoPending
    /\ inventory = <<>>
    /\ xy = <<0, 0>>
    /\ now = 0
    /\ last_worldinfo_send = 0
    /\ error = NoError
    /\ batch = <<>>
    /\ seen = 0
    /\ gotFatal = FALSE
    /\ lastArrival = 0
    /\ op = "init"

DrainUnchanged ==
    UNCHANGED <<frames, out, ret, srv_count, password, worldinfo_retry, sent, player_slot,
                world_info, state, pending, inventory, xy, now, last_worldinfo_send,
                batch, gotFatal, lastArrival, calls, blob, important, parsed,
                arg, res, proxy>>

\* The peer writes a frame.
PeerWrite ==
    /\ ~closed
    /\ \E f \in DrainFrames :
          /\ Len(wire) + Len(f) <= MaxReady
          /\ wire' = wire \o f
    /\ UNCHANGED <<buf, buf0, op, closed, pc, error, seen, polled>>
    /\ DrainUnchanged

\* The peer closes the connection.
PeerShut ==
    /\ ~closed
    /\ closed' = TRUE
    /\ UNCHANGED <<wire, buf, buf0, op, pc, error, seen, polled>>
    /\ DrainUnchanged

\* The caller calls poll_messages(max); seen counts the reads of the call,
\* up to one.
PollEnter ==
    /\ pc = "Idle"
    /\ pc' = "Draining"
    /\ op' = "poll_enter"
    /\ buf0' = buf
    /\ seen' = 0
    /\ \E max \in 0 .. MaxPoll : polled' = [max |-> max, msgs |-> <<>>]
    /\ UNCHANGED <<wire, buf, closed, error>>
    /\ DrainUnchanged

\* select reports the socket readable and recv returns the bytes that are
\* there: the loop goes round.
DrainRead ==
    /\ pc = "Draining"
    /\ wire # <<>>
    /\ buf' = Take(FeedBuf(buf, wire), MaxBuffered)
    /\ wire' = <<>>
    /\ seen' = 1
    /\ op' = "drain_read"
    /\ UNCHANGED <<buf0, closed, pc, error, polled>>
    /\ DrainUnchanged

\* select reports the closed socket readable and recv returns no bytes.
DrainEof ==
    /\ pc = "Draining"
    /\ wire = <<>>
    /\ closed
    /\ pc' = "Crashed"
    /\ error' = Exception(Drain(buf, <<>>, TRUE).raised)
    /\ op' = "drain_eof"
    /\ UNCHANGED <<wire, buf, buf0, closed, seen, polled>>
    /\ DrainUnchanged

\* select reports nothing to read: the second loop runs and the call
\* returns.
DrainReturn ==
    /\ pc = "Draining"
    /\ wire = <<>>
    /\ ~closed
    /\ \E r \in {PollMessages(buf, polled.max)} :
          /\ buf' = r.buf
          /\ polled' = [polled EXCEPT !.msgs = r.msgs]
    /\ pc' = "Idle"
    /\ op' = "poll_return"
    /\ UNCHANGED <<wire, buf0, closed, error, seen>>
    /\ DrainUnchanged

PollStep == DrainRead \/ DrainEof \/ DrainReturn

DrainNext == PeerWrite \/ PeerShut \/ PollEnter \/ DrainRead \/ DrainEof \/ DrainReturn

\* The caller's thread runs whenever it can.
SpecDrain == InitDrain /\ [][DrainNext]_vars /\ WF_vars(PollStep)

(***************************************************************************)
(* main.py: the packet builders build_spawn_packet and                     *)
(* build_player_buffs_packet and the 7-bit integer codec, each called once *)
(* with arguments drawn from a small set.  struct.pack raises struct.error *)
(* for a value outside its field.                                          *)
(***************************************************************************)
\* dict.get(key, default); a dict is the set of its <<key, value>> items.
Get(d, key, default) ==
    IF \E kv \in d : kv[1] = key THEN (CHOOSE kv \in d : kv[1] = key)[2] ELSE default

\* The ranges of the struct formats B, h, H and i.
FitsB(v) == 0 <= v /\ v <= 255

Fitsh(v) == -32768 <= v /\ v <= 32767

FitsH(v) == 0 <= v /\ v <= 65535

Fitsi(v) == -2147483647 - 1 <= v /\ v <= 2147483647

\* struct.pack("<H", v) and, in two's complement, struct.pack("<h", v)
PackH(v) == <<v % 256, (v \div 256) % 256>>

Packh(v) == PackH(IF v < 0 THEN v + 65536 ELSE v)

\* struct.pack("<i", v), in two's complement
Packi(v) ==
    IF v < 0
    THEN LET w == (v + 2147483647) + 1
         IN  <<w % 256, (w \div 256) % 256, (w \div 65536) % 256, (w \div 16777216) + 128>>
    ELSE <<v % 256, (v \div 256) % 256, (v \div 65536) % 256, v \div 16777216>>

Built(bytes) == [raised |-> "", bytes |-> bytes]

StructError == [raised |-> "struct.error", bytes |-> <<>>]

\* build_spawn_packet with "v0" as the format of a profile that names none.
BuildSpawnPacket_DefaultV0(message_formats, slot, spawn_x, spawn_y, respawn_timer, deaths_pve, deaths_pvp, team, spawn_context) ==
    IF Get(message_formats, "player_spawn", "v0") = "v0"
    THEN Built(BuildRawPacket(MSG_PLAYER_SPAWN, <<slot>> \o Packi(spawn_x) \o Packi(spawn_y)))
    ELSE Built(BuildRawPacket(MSG_PLAYER_SPAWN,
                 <<slot>> \o Packh(spawn_x) \o Packh(spawn_y) \o Packi(respawn_timer)
                 \o Packh(deaths_pve) \o Packh(deaths_pvp) \o <<team, spawn_context>>))

\* build_spawn_packet
BuildSpawnPacket(message_formats, slot, spawn_x, spawn_y, respawn_timer, deaths_pve, deaths_pvp, team, spawn_context) ==
    IF Get(message_formats, "player_spawn", "v1") = "v0"
    THEN IF FitsB(slot) /\ Fitsi(spawn_x) /\ Fitsi(spawn_y)
         THEN Built(BuildRawPacket(MSG_PLAYER_SPAWN,
                      <<slot>> \o Packi(spawn_x) \o Packi(spawn_y)))
         ELSE StructError
    ELSE IF /\ FitsB(slot) /\ Fitsh(spawn_x) /\ Fitsh(spawn_y) /\ Fitsi(respawn_timer)
            /\ Fitsh(deaths_pve) /\ Fitsh(deaths_pvp) /\ FitsB(team) /\ FitsB(spawn_context)
         THEN Built(BuildRawPacket(MSG_PLAYER_SPAWN,
                      <<slot>> \o Packh(spawn_x) \o Packh(spawn_y) \o Packi(respawn_timer)
                      \o Packh(deaths_pve) \o Packh(deaths_pvp) \o <<team, spawn_context>>))
         ELSE StructError

\* for buff_id in buffs: base.extend(struct.pack("<H", buff_id))
RECURSIVE PackBuffs(_)
PackBuffs(buffs) ==
    IF buffs = <<>> THEN <<>> ELSE PackH(Head(buffs)) \o PackBuffs(Tail(buffs))

\* build_player_buffs_packet; buffs is <<>> for None and <<ids>> for a list
\* of buff ids.
BuildPlayerBuffsPacket(message_formats, slot, buffs) ==
    LET ids == IF Get(message_formats, "player_buffs", "v0") = "v1"
               THEN IF buffs = <<>> THEN <<>> ELSE buffs[1]
               ELSE IF buffs = <<>> THEN [i \in 1 .. BuffSlots |-> 0] ELSE buffs[1]
        sentinel == IF Get(message_formats, "player_buffs", "v0") = "v1" THEN PackH(0)
                    ELSE <<>>
    IN  IF \A i \in DOMAIN ids : FitsH(ids[i])
        THEN Built(BuildRawPacket(MSG_BUFFS, <<slot % 256>> \o PackBuffs(ids) \o sentinel))
        ELSE StructError

RECURSIVE Write7BitEncodedInt(_)
\* write_7bit_encoded_int with the continuation bit on the last byte too.
Write7BitEncodedInt_AllContinue(n) ==
    IF n >= 128 THEN <<(n % 128) + 128>> \o Write7BitEncodedInt(n \div 128)
    ELSE <<(n % 128) + 128>>

\* write_7bit_encoded_int
Write7BitEncodedInt(n) ==
    IF n >= 128 THEN <<(n % 128) + 128>> \o Write7BitEncodedInt(n \div 128)
    ELSE <<n % 128>>

\* The loop of read_7bit_encoded_int (and of read_7bit_int in dumper.py) from
\* position pos of the stream.  The integer read is kept as its base-128
\* digits, lowest first: result |= (byte & 0x7F) << shift appends one, and
\* shift is 7 times their count.
RECURSIVE Read7BitLoop(_, _, _)
Read7BitLoop(data, pos, digits) ==
    IF pos >= Len(data) THEN [raised |-> "EOFError", digits |-> digits, pos |-> pos]
    ELSE IF data[pos + 1] < 128
         THEN [raised |-> "", digits |-> Append(digits, data[pos + 1]), pos |-> pos + 1]
         ELSE IF 7 * (Len(digits) + 1) > VarintMaxShift
              THEN [raised |-> "ValueError", digits |-> Append(digits, data[pos + 1] % 128),
                    pos |-> pos + 1]
              ELSE Read7BitLoop(data, pos + 1, Append(digits, data[pos + 1] % 128))

\* read_7bit_encoded_int on a stream at its start
Read7BitEncodedInt(data) == Read7BitLoop(data, 0, <<>>)

\* The integer with the base-128 digits ds, lowest first.
RECURSIVE DigitsValue(_)
DigitsValue(ds) == IF ds = <<>> THEN 0 ELSE Head(ds) + 128 * DigitsValue(Tail(ds))

\* The profiles: one that names no format, and ones that name v0, v1 or a
\* format the builders do not know.
Profiles ==
    {{}} \cup {{<<"player_spawn", f>>, <<"player_buffs", f>>} : f \in {"v0", "v1", "v2"}}

\* Spawn tiles as world info gives them (Int16sl), timers and counts.
SpawnArgs ==
    {[fn |-> "build_spawn_packet", profile |-> p, player_slot |-> s, spawn_x |-> x,
      spawn_y |-> y, respawn_timer |-> t, deaths_pve |-> d, deaths_pvp |-> 0, team |-> 0,
      spawn_context |-> c] :
        p \in Profiles, s \in {0, 255}, x \in {-1, 2, 300}, y \in {0, 32767},
        t \in {0, 70000}, d \in {0, 258}, c \in {0, 1}}

\* The buffs arguments: the default, the empty list login passes, and lists
\* of up to MaxBuffs ids.
BuffsArgs ==
    {[fn |-> "build_player_buffs_packet", profile |-> p, player_slot |-> s, buffs |-> b] :
        p \in Profiles, s \in {0, 255, 256},
        b \in {<<>>} \cup {<<ids>> : ids \in SeqsUpTo({5, 300}, MaxBuffs)}}

VarintValues ==
    {0, 1, 127, 128, 255, 300, 16383, 16384, 2097151, 2097152, 268435455, 268435456,
     2147483647}

\* A last byte and a continuation byte.
VarintBytes == {1, 129}

\* An integer to write and read back, and a stream to read.
VarintArgs ==
    {[fn |-> "varint", n |-> n, data |-> d] :
        n \in VarintValues, d \in SeqsUpTo(VarintBytes, MaxVarintLen)}

\* build_teleport_ack_packet with bit 0 alone in the flags byte.
BuildTeleportAckPacket_BitZero(target) ==
    IF ~Fitsh(target) THEN StructError
    ELSE Built(BuildRawPacket(MSG_TELEPORT,
                   <<1>> \o Packh(target) \o <<0, 0, 0, 0, 0, 0, 0, 0, 0>>))

\* build_teleport_ack_packet(target):
\* struct.pack("<BhffB", 0x01 | 0x02, target, 0.0, 0.0, 0) as a $41 packet
BuildTeleportAckPacket(target) ==
    IF ~Fitsh(target) THEN StructError
    ELSE Built(BuildRawPacket(MSG_TELEPORT,
                   <<3>> \o Packh(target) \o <<0, 0, 0, 0, 0, 0, 0, 0, 0>>))

\* Teleport payloads: any flags byte, a target, two floats, a style and four
\* more bytes, whole or cut short.
TeleportArgs ==
    {[fn |-> "decode_teleport",
      payload |-> Take(<<bits>> \o Packh(t) \o <<0, 0, 128, 63, 0, 0, 0, 64, 1, 7, 0, 0, 0>>, n)] :
        bits \in 0 .. 15 \cup {255}, t \in {-1, 0, 1, 300}, n \in {11, 12, 15, 16}}

TeleportAckArgs ==
    {[fn |-> "build_teleport_ack_packet", target |-> t] :
        t \in {-32769, -32768, -1, 0, 1, 255, 256, 32767, 32768}}

\* Payloads of up to MaxPayload bytes, and field values, for the packet
\* builders; 200 is no ascii character.
PayloadBytes == {0, 2, 65, 200}

RawPacketArgs ==
    {[fn |-> "build_raw_packet", t |-> t, payload |-> p] :
        t \in {MSG_FATAL_ERROR, MSG_APPROVED, MSG_TELEPORT, MSG_REMOVE_ITEM},
        p \in SeqsUpTo(PayloadBytes, MaxPayload)}

PacketArgs ==
    {[fn |-> "build_packet", t |-> t, payload_dict |-> d] :
        t \in {MSG_FATAL_ERROR, MSG_APPROVED, MSG_REMOVE_ITEM},
        d \in SeqsUpTo(PayloadBytes, MaxPayload)}

NetmodulePacketArgs ==
    {[fn |-> "build_netmodule_packet", module_id |-> id, payload |-> p] :
        id \in {0, 1, 258}, p \in SeqsUpTo(PayloadBytes, MaxPayload)}

\* What a fresh PacketStream returns for the bytes of one packet: _feed, then
\* _next_message twice.
FramerOn(bytes) ==
    [first |-> NextMessage(FeedBuf(<<>>, bytes)),
     second |-> NextMessage(NextMessage(FeedBuf(<<>>, bytes)).buf)]

InitCodec ==
    /\ NoSession
    /\ NoStream
    /\ calls = <<>>
    /\ blob = <<>>
    /\ important = {}
    /\ parsed = None
    /\ polled = None
    /\ proxy = None
    /\ op = "init"
    /\ arg \in SpawnArgs \cup BuffsArgs \cup VarintArgs \cup RawPacketArgs \cup PacketArgs
                \cup NetmodulePacketArgs \cup TeleportArgs \cup TeleportAckArgs
    /\ res = None

CodecUnchanged ==
    /\ UNCHANGED <<wire, buf, frames, calls, blob, important, parsed, polled, arg, proxy>>
    /\ UNCHANGED sessionVars
    /\ UNCHANGED frameVars

\* The caller calls build_spawn_packet.
BuildSpawnCall ==
    /\ op = "init"
    /\ arg.fn = "build_spawn_packet"
    /\ res' = BuildSpawnPacket(arg.profile, arg.player_slot, arg.spawn_x, arg.spawn_y,
                               arg.respawn_timer, arg.deaths_pve, arg.deaths_pvp, arg.team,
                               arg.spawn_context)
    /\ op' = "build_spawn_packet"
    /\ CodecUnchanged

\* The caller calls build_player_buffs_packet.
BuildBuffsCall ==
    /\ op = "init"
    /\ arg.fn = "build_player_buffs_packet"
    /\ res' = BuildPlayerBuffsPacket(arg.profile, arg.player_slot, arg.buffs)
    /\ op' = "build_player_buffs_packet"
    /\ CodecUnchanged

\* The caller writes n and reads the bytes back.
RoundTripCall ==
    /\ op = "init"
    /\ arg.fn = "varint"
    /\ res' = [bytes |-> Write7BitEncodedInt(arg.n),
               back |-> Read7BitEncodedInt(Write7BitEncodedInt(arg.n)),
               read |-> None]
    /\ op' = "round_trip"
    /\ CodecUnchanged

\* The caller then calls read_7bit_encoded_int on a stream holding data.
ReadCall ==
    /\ op = "round_trip"
    /\ res' = [res EXCEPT !.read = Read7BitEncodedInt(arg.data)]
    /\ op' = "read_7bit_encoded_int"
    /\ CodecUnchanged

\* The caller builds a packet with build_raw_packet and feeds it to a framer.
BuildRawCall ==
    /\ op = "init"
    /\ arg.fn = "build_raw_packet"
    /\ res' = [raised |-> "", bytes |-> BuildRawPacket(arg.t, arg.payload),
               payload |-> arg.payload,
               framed |-> FramerOn(BuildRawPacket(arg.t, arg.payload))]
    /\ op' = "build_raw_packet"
    /\ CodecUnchanged

\* The caller builds a packet with build_packet and feeds it to a framer.
BuildPacketCall ==
    /\ op = "init"
    /\ arg.fn = "build_packet"
    /\ res' = [raised |-> BuildPacket(arg.t, arg.payload_dict).raised,
               bytes |-> BuildPacket(arg.t, arg.payload_dict).bytes,
               payload |-> SchemaBuild(arg.t, arg.payload_dict).bytes,
               framed |-> FramerOn(BuildPacket(arg.t, arg.payload_dict).bytes)]
    /\ op' = "build_packet"
    /\ CodecUnchanged

\* The caller builds a packet with build_netmodule_packet and feeds it to a
\* framer.
BuildNetmoduleCall ==
    /\ op = "init"
    /\ arg.fn = "build_netmodule_packet"
    /\ res' = [raised |-> "", bytes |-> BuildNetmodulePacket(arg.module_id, arg.payload),
               payload |-> arg.payload,
               framed |-> FramerOn(BuildNetmodulePacket(arg.module_id, arg.payload))]
    /\ op' = "build_netmodule_packet"
    /\ CodecUnchanged

\* The caller calls decode_teleport on payload bytes.
DecodeTeleportCall ==
    /\ op = "init"
    /\ arg.fn = "decode_teleport"
    /\ res' = DecodeTeleport([kind |-> "bytes", raw |-> arg.payload])
    /\ op' = "decode_teleport"
    /\ CodecUnchanged

\* The caller builds the acknowledgement for a target and decodes the payload
\* of the packet, the bytes behind its length and type.
TeleportAckCall ==
    /\ op = "init"
    /\ arg.fn = "build_teleport_ack_packet"
    /\ res' = [raised |-> BuildTeleportAckPacket(arg.target).raised,
               bytes |-> BuildTeleportAckPacket(arg.target).bytes,
               back |-> DecodeTeleport([kind |-> "bytes",
                            raw |-> Drop(BuildTeleportAckPacket(arg.target).bytes, 3)])]
    /\ op' = "build_teleport_ack_packet"
    /\ CodecUnchanged

CodecNext ==
    \/ DecodeTeleportCall
    \/ TeleportAckCall
    \/ BuildSpawnCall
    \/ BuildBuffsCall
    \/ RoundTripCall
    \/ ReadCall
    \/ BuildRawCall
    \/ BuildPacketCall
    \/ BuildNetmoduleCall

SpecCodec == InitCodec /\ [][CodecNext]_vars

(***************************************************************************)
(* main.py: a WorldState driven by a caller: update_item,                  *)
(* update_item_owner, remove_item and update_tile_section are called in    *)
(* any order.  The methods return nothing; res keeps the state before the  *)
(* call.                                                                   *)
(***************************************************************************)
\* The items of $15 messages: two slots, two positions.
StateItems ==
    {[item_slot |-> s, position_x |-> x, position_y |-> 0, stack |-> 1, prefix_id |-> 0,
      item_id |-> 7, owner |-> <<>>] : s \in {0, 1}, x \in {0, 3}}

\* Slot 2 is never stored.
StateSlots == {0, 1, 2}

StateOwners == {0, 255}

StateCoords == {<<0, 0>>, <<1, 0>>}

\* The sections parse_tile_section can return over two coordinates.
StateSections ==
    {[ok |-> TRUE, hdr |-> [x_start |-> 0, y_start |-> 0, width |-> 2, height |-> 1],
      tiles |-> t] :
        t \in UNION {[D -> {1, 2}] : D \in SUBSET StateCoords}}

\* WorldState.__init__
InitState ==
    /\ closed = FALSE
    /\ srv_count = 0
    /\ pc = "NoSession"
    /\ password = None
    /\ worldinfo_retry = 0
    /\ sent = <<>>
    /\ player_slot = 0
    /\ world_info = None
    /\ state = NewWorldState
    /\ pending = NoPending
    /\ inventory = <<>>
    /\ xy = <<0, 0>>
    /\ now = 0
    /\ last_worldinfo_send = 0
    /\ error = NoError
    /\ batch = <<>>
    /\ seen = 0
    /\ gotFatal = FALSE
    /\ lastArrival = 0
    /\ NoStream
    /\ calls = <<>>
    /\ blob = <<>>
    /\ important = {}
    /\ parsed = None
    /\ polled = None
    /\ proxy = None
    /\ op = "init"
    /\ arg = None
    /\ res = None

StateUnchanged ==
    /\ UNCHANGED <<wire, buf, frames, calls, blob, important, parsed, polled, proxy>>
    /\ UNCHANGED <<closed, srv_count, pc, password, worldinfo_retry, sent, player_slot,
                   world_info, pending, inventory, xy, now, last_worldinfo_send, error,
                   batch, seen, gotFatal, lastArrival>>
    /\ UNCHANGED frameVars

\* The caller calls state.update_item(item).
UpdateItemCall ==
    /\ \E item \in StateItems :
          /\ state' = UpdateItem(state, item)
          /\ arg' = [fn |-> "update_item", item |-> item]
    /\ op' = "update_item"
    /\ res' = state
    /\ StateUnchanged

\* The caller calls state.update_item_owner(item_slot, owner).
UpdateItemOwnerCall ==
    /\ \E slot \in StateSlots :
       \E owner \in StateOwners :
          /\ state' = UpdateItemOwner(state, slot, owner)
          /\ arg' = [fn |-> "update_item_owner", item_slot |-> slot, owner |-> owner]
    /\ op' = "update_item_owner"
    /\ res' = state
    /\ StateUnchanged

\* The caller calls state.remove_item(item_slot).
RemoveItemCall ==
    /\ \E slot \in StateSlots :
          /\ state' = RemoveItem(state, slot)
          /\ arg' = [fn |-> "remove_item", item_slot |-> slot]
    /\ op' = "remove_item"
    /\ res' = state
    /\ StateUnchanged

\* The caller calls state.update_tile_section(section).
UpdateTileSectionCall ==
    /\ state.tile_sections < MaxSections
    /\ \E section \in StateSections :
          /\ state' = UpdateTileSection(state, section)
          /\ arg' = [fn |-> "update_tile_section", section |-> section]
    /\ op' = "update_tile_section"
    /\ res' = state
    /\ StateUnchanged

StateNext == UpdateItemCall \/ UpdateItemOwnerCall \/ RemoveItemCall \/ UpdateTileSectionCall

SpecState == InitState /\ [][StateNext]_vars

(***************************************************************************)
(* dumper.py: the relaying proxy.  handle starts one pipe task per         *)
(* direction; a task runs from one await to the next in one step.  Per     *)
(* direction proxy holds src, the bytes the sending side has written and   *)
(* the pipe has not read; chunk, the chunk read and not yet passed on;     *)
(* buf, the PacketDumper buffer; dst, the bytes written to the other side; *)
(* taken, the history of all bytes read; and pc, where the task stands.    *)
(***************************************************************************)
Directions == {"C2S", "S2C"}

\* The loop of PacketDumper.feed on the buffer b.  A schema that fails is
\* caught and printed; a frame shorter than its header is not.
RECURSIVE DumperLoop(_)
DumperLoop(b) ==
    IF Len(b) < 2 THEN [raised |-> "", buf |-> b]
    ELSE IF Len(b) < LengthField(b) THEN [raised |-> "", buf |-> b]
    ELSE IF LengthField(b) < 3
         THEN [raised |-> "IndexError", buf |-> Drop(b, LengthField(b))]
         ELSE DumperLoop(Drop(b, LengthField(b)))

\* PacketDumper.feed
DumperFeed(b, data) == DumperLoop(b \o data)

\* What the two sides write: nothing, a frame, two frames, and streams with
\* a length field below 3.
ProxyStreams ==
    {<<>>, BuildRawPacket(MSG_APPROVED, <<>>),
     BuildRawPacket(MSG_APPROVED, <<>>) \o BuildRawPacket(MSG_REMOVE_ITEM, <<0>>),
     <<0, 0, 3>>, BuildRawPacket(MSG_APPROVED, <<>>) \o <<2, 0>>}

\* pipe: dumper = PacketDumper(prefix)
NewPipe(stream) ==
    [src |-> stream, chunk |-> <<>>, buf |-> <<>>, dst |-> <<>>, taken |-> <<>>,
     pc |-> "reading"]

\* handle, once both pipes are started.
InitProxy ==
    /\ NoSession
    /\ NoStream
    /\ calls = <<>>
    /\ blob = <<>>
    /\ important = {}
    /\ parsed = None
    /\ polled = None
    /\ arg = None
    /\ res = None
    /\ op = "init"
    /\ \E up \in ProxyStreams :
       \E down \in ProxyStreams :
          proxy = [d \in Directions |-> NewPipe(IF d = "C2S" THEN up ELSE down)]

ProxyUnchanged ==
    /\ UNCHANGED <<wire, buf, frames, calls, blob, important, parsed, polled, arg, res, op>>
    /\ UNCHANGED sessionVars
    /\ UNCHANGED frameVars

\* chunk = await reader.read(65536) returns k bytes.
PipeRead(d) ==
    /\ proxy[d].pc = "reading"
    /\ \E k \in 1 .. Len(proxy[d].src) :
          proxy' = [proxy EXCEPT ![d].chunk = Take(proxy[d].src, k),
                                 ![d].src = Drop(proxy[d].src, k),
                                 ![d].taken = proxy[d].taken \o Take(proxy[d].src, k),
                                 ![d].pc = "holding"]
    /\ ProxyUnchanged

\* chunk = await reader.read(65536) returns no bytes: the sending side has
\* closed, and the pipe closes the writer.
PipeEof(d) ==
    /\ proxy[d].pc = "reading"
    /\ proxy[d].src = <<>>
    /\ proxy' = [proxy EXCEPT ![d].pc = "closed"]
    /\ ProxyUnchanged

\* dumper.feed(chunk); writer.write(chunk); await writer.drain()
PipeForward(d) ==
    /\ proxy[d].pc = "holding"
    /\ \E r \in {DumperFeed(proxy[d].buf, proxy[d].chunk)} :
          proxy' = [proxy EXCEPT
                       ![d].buf = r.buf,
                       ![d].chunk = <<>>,
                       ![d].dst = IF r.raised = "" THEN proxy[d].dst \o proxy[d].chunk
                                  ELSE proxy[d].dst,
                       ![d].pc = IF r.raised = "" THEN "reading" ELSE "crashed"]
    /\ ProxyUnchanged

ProxyNext == \E d \in Directions : PipeRead(d) \/ PipeEof(d) \/ PipeForward(d)

SpecProxy == InitProxy /\ [][ProxyNext]_vars

(***************************************************************************)
(* One cell of a tile section, read on its own.                            *)
(***************************************************************************)
\* The bytes behind the first three of a cell: distinct, with a two-byte
\* frame-important type (3, 0) where the type of a cell with b3, b2 and the
\* reserved byte starts.
CellRest == <<7, 3, 0, 11, 13, 17, 19, 23, 29, 31, 37, 41, 2, 0, 47>>

\* b4 is any byte; the two bytes behind it are b3 and b2, or the type, when
\* b4 says so.
CellArgs ==
    {[fn |-> "read_cell", data |-> Take(<<b4, y, z>> \o CellRest, n), tfi |-> tfi] :
        b4 \in 0 .. 255, y \in {0, 1, 3}, z \in {0, 1, 8, 16, 64, 89},
        n \in {2, 18}, tfi \in {TileFrameImportant, {5}}}

InitCell ==
    /\ NoSession
    /\ NoStream
    /\ calls = <<>>
    /\ blob = <<>>
    /\ important = {}
    /\ parsed = None
    /\ polled = None
    /\ proxy = None
    /\ op = "init"
    /\ arg \in CellArgs
    /\ res = None

\* The cell loop reads one cell that is not a repeat, at the start of data.
ReadCellCall ==
    /\ op = "init"
    /\ res' = ReadCell(arg.data, 0, arg.tfi)
    /\ op' = "read_cell"
    /\ UNCHANGED <<wire, buf, frames, calls, blob, important, parsed, polled, arg, proxy>>
    /\ UNCHANGED sessionVars
    /\ UNCHANGED frameVars

CellNext == ReadCellCall

SpecCell == InitCell /\ [][CellNext]_vars

(***************************************************************************)
(* A session whose server answers the connect request with anything.       *)
(***************************************************************************)
\* The first two frames of the server are of any kind, with either slot in
\* an approval; the later ones are world info or the spawn signal.
LoginChoices(n) ==
    IF n < 2
    THEN SrvMenu \cup {<<MSG_APPROVED, <<2, 0>>>>, <<MSG_APPROVED, <<1>>>>,
                       <<MSG_PLAYER_SPAWN, <<1, 0, 0>>>>, <<MSG_REMOVE_ITEM, <<1, 0>>>>}
    ELSE {<<MSG_WORLD_INFO, <<2, 1>>>>, <<MSG_SPAWN, <<>>>>}

\* The server writes its next frame.
SrvLogin ==
    /\ pc \notin {"Connecting"} \cup Terminal
    /\ ~closed
    /\ srv_count < MaxLoginMsgs
    /\ InFlight < MaxInFlight
    /\ \E e \in LoginChoices(srv_count) : wire' = wire \o BuildRawPacket(e[1], e[2])
    /\ srv_count' = srv_count + 1
    /\ op' = "srv_send"
    /\ UNCHANGED <<buf, frames, closed, pc, password, worldinfo_retry, sent, player_slot,
                   world_info, state, pending, inventory, xy, now, last_worldinfo_send,
                   error, batch, seen, gotFatal, lastArrival>>
    /\ UNCHANGED frameVars
    /\ UNCHANGED unitVars

NextLogin ==
    \/ Connect
    \/ SrvLogin
    \/ SrvClose
    \/ RecvChunk
    \/ ApprovalStep
    \/ WorldInfoPoll
    \/ SpawnStep
    \/ PlayingPoll

SpecLogin == Init /\ [][NextLogin]_vars

(***************************************************************************)
(* try_pickup_reserved_items on its own.                                   *)
(***************************************************************************)
\* What an item is like: its owner (none, the client's slot 1, another
\* player), its x position (100 is out of reach from the origin), its item
\* id and its stack.
ItemKinds ==
    {<<o, x, id[1], id[2]>> : o \in {<<>>, <<1>>, <<2>>}, x \in {0, 100},
                               id \in {<<7, 1>>, <<0, 1>>, <<7, 0>>}}

\* WorldState.items in the order the entries were made, the item slots
\* going down from 6.
PickupItems ==
    {[i \in 1 .. Len(q) |->
         [item_slot |-> 7 - i, position_x |-> q[i][2], position_y |-> 0, stack |-> q[i][4],
          prefix_id |-> 0, item_id |-> q[i][3], owner |-> q[i][1]]] :
        q \in SeqsUpTo(ItemKinds, MaxItems)}

\* What an inventory slot holds: nothing, an entry without an item id, an
\* entry without a stack, an item.
SlotChoices ==
    {None, [item_id |-> 0, stack |-> 5, prefix_id |-> 0],
     [item_id |-> 9, stack |-> 0, prefix_id |-> 0],
     [item_id |-> 9, stack |-> 5, prefix_id |-> 0]}

InitPickup ==
    /\ wire = <<>>
    /\ buf = <<>>
    /\ frames = <<>>
    /\ out = <<>>
    /\ ret = [msg |-> None, length |-> 0]
    /\ buf0 = <<>>
    /\ closed = FALSE
    /\ srv_count = 0
    /\ pc = "NoSession"
    /\ password = None
    /\ worldinfo_retry = 0
    /\ sent = <<>>
    /\ player_slot = 1
    /\ world_info = None
    /\ \E its \in PickupItems : state = [NewWorldState EXCEPT !.items = its]
    /\ pending = NoPending
    /\ inventory \in [1 .. InventoryCount -> SlotChoices]
    /\ xy = <<0, 0>>
    /\ now = 0
    /\ last_worldinfo_send = 0
    /\ error = NoError
    /\ batch = <<>>
    /\ seen = 0
    /\ gotFatal = FALSE
    /\ lastArrival = 0
    /\ calls = <<>>
    /\ blob = <<>>
    /\ important = {}
    /\ parsed = None
    /\ polled = None
    /\ proxy = None
    /\ op = "init"
    /\ arg \in {[player_pos |-> <<>>], [player_pos |-> <<xy>>]}
    /\ res = None

\* A caller calls try_pickup_reserved_items with its state, its inventory
\* and arg.player_pos; res keeps what the items and the slots were.
TryPickupCall ==
    /\ op = "init"
    /\ \E S \in {IF arg.player_pos = <<>> THEN Locals
                 ELSE TryPickup(Locals, state.items, player_slot, arg.player_pos[1])} :
          /\ state' = S.state
          /\ inventory' = S.inventory
          /\ sent' = S.sent
    /\ res' = [items |-> state.items, slots |-> inventory]
    /\ op' = "try_pickup_reserved_items"
    /\ UNCHANGED <<wire, buf, frames, closed, srv_count, pc, password, worldinfo_retry,
                   player_slot, world_info, pending, xy, now, last_worldinfo_send, error,
                   batch, seen, gotFatal, lastArrival, calls, blob, important, parsed,
                   polled, arg, proxy>>
    /\ UNCHANGED frameVars

PickupNext == TryPickupCall

SpecPickup == InitPickup /\ [][PickupNext]_vars

RECURSIVE WholeFrames(_, _)
WholeFrames(fs, n) ==
    IF fs = <<>> \/ Len(Head(fs)) > n THEN 0
    ELSE 1 + WholeFrames(Tail(fs), n - Len(Head(fs)))

\* The number of frames fed completely so far.
CompleteFed == WholeFrames(frames, Len(Concat(frames)) - Len(wire))

LengthIsBytesConsumed ==
    (op = "call" /\ ret.msg # None)
        => /\ ret.length >= 2
           /\ ret.length = Len(buf0) - Len(buf)
           /\ Len(buf) < Len(buf0)

(***************************************************************************)
(* Properties of the session.                                              *)
(***************************************************************************)
HandshakeTypes ==
    {MSG_APPEARANCE, MSG_UUID, MSG_INVENTORY, MSG_REQUEST_WORLD, MSG_REQUEST_TILES,
     MSG_PLAYER_SPAWN}

\* The types of the handshake packets sent, in the order sent.
HandshakeSent ==
    LET hs == SelectSeq(sent, LAMBDA q : q.type \in HandshakeTypes)
    IN  [i \in 1 .. Len(hs) |-> hs[i].type]

HandshakeExpected ==
    <<MSG_APPEARANCE, MSG_UUID>> \o [i \in 1 .. InventoryCount |-> MSG_INVENTORY]
    \o <<MSG_REQUEST_WORLD, MSG_REQUEST_TILES, MSG_PLAYER_SPAWN>>

\* C4: against a server that replies approved, world info, spawn, login
\* reaches Playing having sent one appearance packet, one UUID packet,
\* inventory_count inventory packets, one world-info request, one tile
\* request and one player-spawn packet, in that order: once the client has
\* taken all three replies from its stream (the server still connected, and
\* no retry interval run out), it is Playing and has sent exactly those.
ScriptedHandshake ==
    (srv_count = Len(Script) /\ wire = <<>> /\ buf = <<>> /\ ~closed /\ now = 0)
        => (pc = "Playing" /\ HandshakeSent = HandshakeExpected)

AwaitingApproval == {"AwaitApproval", "AwaitApprovalPw"}

\* C5: while awaiting approval, with a password configured, every
\* request-password message is answered by one password packet and the
\* session goes on awaiting approval, however many requests came before.
PasswordLoop ==
    [][(/\ op' = "approval"
        /\ password # None
        /\ NextMessage(buf).msg # None
        /\ NextMessage(buf).msg.type = MSG_REQUEST_PASSWORD)
          => (/\ sent' = Append(sent, Pkt(MSG_PASSWORD, <<>>))
              /\ pc' \in AwaitingApproval)]_vars

\* A fatal-error message whose payload parses.
IsFatal(m) == m # None /\ m.type = MSG_FATAL_ERROR /\ m.payload.kind = "record"

\* The session fails with the text of m and sends nothing.
FailsWith(m) ==
    /\ pc' = "Failed"
    /\ error' = [kind |-> "SystemExit", text |-> Tail(m.payload.f)]
    /\ sent' = sent

\* C6: a fatal-error message that login comes to while awaiting approval or
\* while awaiting world info moves the session to Failed with the server's
\* text; nothing is sent in that step, and nothing after it: Failed is
\* terminal.
FatalErrorFails ==
    [][/\ (op' = "approval" /\ IsFatal(NextMessage(buf).msg))
            => FailsWith(NextMessage(buf).msg)
       /\ (op' = "poll_worldinfo" /\ seen' \in DOMAIN batch' /\ IsFatal(batch'[seen']))
            => FailsWith(batch'[seen'])
       /\ pc = "Failed" => (pc' = "Failed" /\ sent' = sent)]_vars

\* The session failed on a fatal error that came behind another message
\* while it awaited world info.
FatalErrorFailsWitness ==
    /\ pc = "Failed"
    /\ op = "poll_worldinfo"
    /\ Len(batch) >= 2
    /\ seen = 2
    /\ error.text = <<66>>

\* C7: a fatal-error message login comes to anywhere before Playing ends the
\* session: the session is never Playing after one.
NoPlayingAfterFatal == ~(pc = "Playing" /\ gotFatal)

\* The messages of a world-info batch in front of its $02 or $07.
BeforeDecisive(msgs) ==
    IF FirstDecisive(msgs) = 0 THEN msgs ELSE Take(msgs, FirstDecisive(msgs) - 1)

\* WorldState and TeleportTracker are as the handlers of the wait for spawn
\* leave them after msgs.
AppliedAsInAwaitSpawn(msgs) ==
    LET S == HandleAll(Locals, msgs, player_slot, xy, FALSE)
    IN  /\ state'.tiles = S.state.tiles
        /\ state'.tile_sections = S.state.tile_sections
        /\ state'.items = S.state.items
        /\ state'.npcs = S.state.npcs
        /\ pending' = S.pending

\* C8: the tile-section, item, NPC, player-position and teleport messages
\* that arrive while the session awaits world info are applied to WorldState
\* and TeleportTracker as the wait for spawn would apply them.
WorldInfoWaitApplies ==
    [][(op' = "poll_worldinfo" /\ pc' # "Crashed" /\ batch' # <<>>)
          => AppliedAsInAwaitSpawn(BeforeDecisive(batch'))]_vars

\* A tile-section message whose payload bytes are a blob parse_tile_section
\* decodes.
IsValidTileSection(m) ==
    /\ m.type = MSG_TILE_SECTION
    /\ ParseTileSection([kind |-> "bytes", raw |-> m.payload.raw], TileFrameImportant).ok

ValidTileSections(msgs) == Cardinality({i \in DOMAIN msgs : IsValidTileSection(msgs[i])})

\* The tiles of m's section are in WorldState after the step.
TilesMerged(m) ==
    LET section == ParseTileSection([kind |-> "bytes", raw |-> m.payload.raw],
                                    TileFrameImportant)
    IN  \A c \in DOMAIN section.tiles :
            c \in DOMAIN state'.tiles /\ state'.tiles[c] = section.tiles[c]

\* C9: awaiting spawn and playing, each tile-section message with a valid
\* blob is decoded and merged: tile_sections grows by one for each and the
\* tiles of the section are in WorldState.tiles.
TileSectionMerged ==
    [][/\ (op' = "spawn_step" /\ IsValidTileSection(NextMessage(buf).msg))
            => (/\ state'.tile_sections = state.tile_sections + 1
                /\ TilesMerged(NextMessage(buf).msg))
       /\ (op' = "poll_playing" /\ pc' = "Playing")
            => state'.tile_sections = state.tile_sections + ValidTileSections(batch')]_vars

\* The step sends another world-info request.
Resend == sent' = Append(sent, Pkt(MSG_REQUEST_WORLD, <<>>))

\* C10 as stated: awaiting world info, the request is sent again only when
\* no message has arrived for a full retry interval, so a message within the
\* interval prevents it; and never with a retry interval of 0.
ResendOnlyAfterSilence ==
    [][(op' = "poll_worldinfo" /\ Resend)
          => (worldinfo_retry # 0 /\ now - lastArrival > worldinfo_retry)]_vars

\* C10, amended: awaiting world info, the request is sent again exactly at a
\* poll that returns no message while the retry interval is not 0 and more
\* than the interval has passed since the request was last sent, and the
\* timer restarts there; messages that arrived in between do not reset the
\* timer; with a retry interval of 0 it is never sent again.
ResendSinceLastRequest ==
    [][op' = "poll_worldinfo"
          => /\ Resend <=> (/\ pc' = "AwaitWorldInfo"
                            /\ batch' = <<>>
                            /\ worldinfo_retry # 0
                            /\ now - last_worldinfo_send > worldinfo_retry)
             /\ Resend => last_worldinfo_send' = now
             /\ ~Resend => last_worldinfo_send' = last_worldinfo_send
             /\ worldinfo_retry = 0 => ~Resend]_vars

\* The request was just sent again although a message had arrived within the
\* retry interval.
ResendWitness ==
    /\ op = "poll_worldinfo"
    /\ pc = "AwaitWorldInfo"
    /\ Len(sent) > 0
    /\ sent[Len(sent)] = Pkt(MSG_REQUEST_WORLD, <<>>)
    /\ last_worldinfo_send = now
    /\ now > 0
    /\ now - lastArrival <= worldinfo_retry

\* How many packets of type t are among the packets s.
CountSent(s, t) == Cardinality({i \in DOMAIN s : s[i].type = t})

\* The step takes a world-info message whose payload parses out of a batch
\* of the world-info loop.
TakesWorldInfo ==
    /\ op' = "poll_worldinfo"
    /\ seen' \in DOMAIN batch'
    /\ batch'[seen'].type = MSG_WORLD_INFO
    /\ batch'[seen'].payload.kind = "record"

\* C11: on a world-info message, awaiting world info, the session sets
\* player_pos of its own slot to 16 times the spawn tile, sends one tile
\* request carrying the spawn tile received and awaits spawn; a tile request
\* is sent at no other step, so never before world info, and never twice.
WorldInfoRequestsTiles ==
    [][/\ TakesWorldInfo
            => (/\ pc = "AwaitWorldInfo"
                /\ state'.player_pos[player_slot] =
                       <<16 * batch'[seen'].payload.f[1], 16 * batch'[seen'].payload.f[2]>>
                /\ sent' = Append(sent, Pkt(MSG_REQUEST_TILES,
                                <<batch'[seen'].payload.f[1], batch'[seen'].payload.f[2]>>))
                /\ pc' = "AwaitSpawn")
       /\ CountSent(sent', MSG_REQUEST_TILES) # CountSent(sent, MSG_REQUEST_TILES)
            => (/\ TakesWorldInfo
                /\ world_info' = batch'[seen'].payload
                /\ CountSent(sent, MSG_REQUEST_TILES) = 0)]_vars

\* World info came behind another message; the own position is 16 times the
\* spawn tile (2, 1) and the tile request for (2, 1) is the last packet sent.
WorldInfoRequestsTilesWitness ==
    /\ op = "poll_worldinfo"
    /\ pc = "AwaitSpawn"
    /\ Len(batch) >= 2
    /\ seen = 2
    /\ player_slot \in DOMAIN state.player_pos
    /\ state.player_pos[player_slot] = <<32, 16>>
    /\ sent[Len(sent)] = Pkt(MSG_REQUEST_TILES, <<2, 1>>)

\* The step of the wait for spawn takes a spawn signal or a player-spawn
\* message.
TakesSpawn ==
    /\ op' = "spawn_step"
    /\ NextMessage(buf).msg.type \in {MSG_SPAWN, MSG_PLAYER_SPAWN}

\* C12: awaiting spawn, the session sends its player-spawn packet, with its
\* slot and the spawn tile of world info, at the step that takes a spawn
\* signal or a player-spawn message, and is Playing from there; at every
\* other step it sends none and does not go on to Playing (it stays, or
\* ends on an exception); the packet is never sent a second time.
SpawnOnlyOnSignal ==
    [][/\ (pc = "AwaitSpawn" /\ TakesSpawn)
            => (/\ pc' = "Playing"
                /\ CountSent(sent, MSG_PLAYER_SPAWN) = 0
                /\ CountSent(sent', MSG_PLAYER_SPAWN) = 1
                /\ \E i \in DOMAIN sent' :
                       sent'[i] = Pkt(MSG_PLAYER_SPAWN,
                                      <<player_slot, world_info.f[1], world_info.f[2]>>))
       /\ (pc = "AwaitSpawn" /\ ~TakesSpawn)
            => (/\ pc' \in {"AwaitSpawn", "Crashed"}
                /\ CountSent(sent', MSG_PLAYER_SPAWN) = 0)
       /\ pc # "AwaitSpawn"
            => CountSent(sent', MSG_PLAYER_SPAWN) = CountSent(sent, MSG_PLAYER_SPAWN)]_vars

\* The session went on to Playing on the spawn signal, after an NPC message
\* it took while awaiting spawn, with one player-spawn packet for (2, 1).
SpawnOnlyOnSignalWitness ==
    /\ op = "spawn_step"
    /\ pc = "Playing"
    /\ 3 \in DOMAIN state.npcs
    /\ CountSent(sent, MSG_PLAYER_SPAWN) = 1
    /\ \E i \in DOMAIN sent : sent[i] = Pkt(MSG_PLAYER_SPAWN, <<player_slot, 2, 1>>)

(***************************************************************************)
(* Properties of the TeleportTracker.                                      *)
(***************************************************************************)
\* The calls made are k calls of sent(t) and then j calls of ack(t).
SentThenAck(t, k, j) ==
    /\ Len(calls) = k + j
    /\ \A i \in 1 .. k : calls[i].fn = "sent" /\ calls[i].target = t
    /\ \A i \in k + 1 .. k + j : calls[i].fn = "ack" /\ calls[i].target = t

\* C13: sent(t) returns true exactly when the count of t goes from 0 to 1;
\* after k >= 1 calls of sent(t) on an empty tracker and then k calls of
\* ack(t), the first k - 1 acks returned false, the k-th returned true and t
\* is no longer pending.
SentAckCounts ==
    /\ \A i \in DOMAIN calls :
          calls[i].fn = "sent"
             => (calls[i].result <=> (calls[i].before = 0 /\ calls[i].after = 1))
    /\ \A t \in Targets, k \in 1 .. MaxCalls, j \in 0 .. MaxCalls :
          (j <= k /\ SentThenAck(t, k, j))
             => (/\ \A i \in 1 .. j : calls[k + i].result <=> (i = k)
                 /\ j < k => (t \in DOMAIN pending /\ pending[t] = k - j)
                 /\ j = k => t \notin DOMAIN pending)

\* Three calls of sent(5) and three of ack(5): only the first sent and the
\* third ack returned true, and 5 is not pending.
SentAckCountsWitness ==
    /\ SentThenAck(5, 3, 3)
    /\ <<calls[1].result, calls[2].result, calls[3].result>> = <<TRUE, FALSE, FALSE>>
    /\ <<calls[4].result, calls[5].result, calls[6].result>> = <<FALSE, FALSE, TRUE>>
    /\ pending = NoPending

\* C14: after any calls of sent and ack with any targets every entry of
\* pending has a count of at least 1 (none negative, none kept at 0); an
\* ack for a target that is not pending returns false and leaves the tracker
\* as it was.
PendingAtLeastOne ==
    [][/\ \A t \in DOMAIN pending' : pending'[t] >= 1
       /\ (op' = "ack" /\ calls'[Len(calls')].target \notin DOMAIN pending)
            => (pending' = pending /\ ~calls'[Len(calls')].result)]_vars

\* An ack for a target that was not pending, while the other target was
\* pending twice, after an entry had been drained and deleted.
PendingAtLeastOneWitness ==
    /\ op = "ack"
    /\ calls[Len(calls)].before = 0
    /\ ~calls[Len(calls)].result
    /\ \E i \in DOMAIN calls : calls[i].fn = "ack" /\ calls[i].result
    /\ \E t \in DOMAIN pending : pending[t] = 2

(***************************************************************************)
(* Properties of the tile section decoder.                                 *)
(***************************************************************************)
\* The bytes the payload inflates to.
Inflated == Tail(blob)

\* The first cell of the payload is an active cell with a run: its type, its
\* run length and the position of the byte after it.
FirstCellHasRun == At(Inflated, 12) \in {66, 130}

FirstRun ==
    IF At(Inflated, 12) = 66
    THEN [type |-> At(Inflated, 13), n |-> At(Inflated, 14), next |-> 15]
    ELSE [type |-> At(Inflated, 13), n |-> Int16(At(Inflated, 14), At(Inflated, 15)),
          next |-> 16]

\* Cell k of the decoded section, counted along the rows.
CellAt(k) ==
    <<parsed.hdr.x_start + (k % parsed.hdr.width),
      parsed.hdr.y_start + (k \div parsed.hdr.width)>>

\* The payload of a 3 x 1 section at (1, 2): one active cell of type 5 with a
\* run of 2.
RunExample == <<120, 1, 0, 0, 0, 2, 0, 0, 0, 3, 0, 1, 0, 66, 5, 2>>

\* C16: with a frame-important set, an active first cell of type T with a
\* run of n is followed by n cells recorded with type T, along the row and
\* on into the next row, that take no bytes: the cell after the run is the
\* one encoded right behind the first cell; the 3 x 1 section with one cell
\* of type 5 and a run of 2 decodes to three tiles of type 5.
RunLengthRepeats ==
    (op = "parse" /\ important # {} /\ parsed.ok)
        => /\ (FirstCellHasRun /\ FirstRun.n >= 0)
                => /\ \A k \in 0 .. Min(FirstRun.n, CellCount(parsed.hdr) - 1) :
                         /\ CellAt(k) \in DOMAIN parsed.tiles
                         /\ parsed.tiles[CellAt(k)] = FirstRun.type
                   /\ (FirstRun.n + 1 < CellCount(parsed.hdr)
                          /\ At(Inflated, FirstRun.next) = 0)
                        => CellAt(FirstRun.n + 1) \notin DOMAIN parsed.tiles
                   /\ (FirstRun.n + 1 < CellCount(parsed.hdr)
                          /\ At(Inflated, FirstRun.next) = 2)
                        => /\ CellAt(FirstRun.n + 1) \in DOMAIN parsed.tiles
                           /\ parsed.tiles[CellAt(FirstRun.n + 1)]
                                 = At(Inflated, FirstRun.next + 1)
           /\ blob = RunExample
                => (/\ DOMAIN parsed.tiles = {<<1, 2>>, <<2, 2>>, <<3, 2>>}
                    /\ \A c \in DOMAIN parsed.tiles : parsed.tiles[c] = 5)

\* A 2 x 2 section: the run of 2 behind the first cell went on into the
\* second row, and the fourth cell is the one encoded behind the first.
RunLengthRepeatsWitness ==
    /\ op = "parse"
    /\ important # {}
    /\ blob = <<120, 1, 0, 0, 0, 2, 0, 0, 0, 2, 0, 2, 0, 66, 5, 2, 2, 2>>
    /\ parsed.ok
    /\ DOMAIN parsed.tiles = {<<1, 2>>, <<2, 2>>, <<1, 3>>, <<2, 3>>}
    /\ parsed.tiles[<<1, 3>>] = 5
    /\ parsed.tiles[<<2, 3>>] = 2

\* The payload decompresses to at least the 12 bytes of a header.
HoldsHeader ==
    /\ DecompressTileBlock([kind |-> "bytes", raw |-> blob]).ok
    /\ Len(Inflated) >= 12

\* C17 as stated: without a frame-important set parse_tile_section returns
\* the header and an empty tile map for any payload and never raises.
DegradedNeverRaises ==
    (op = "parse" /\ important = {}) => (parsed.ok /\ parsed.tiles = NoTiles)

\* C17, amended: without a frame-important set parse_tile_section returns
\* x_start, y_start, width and height of the header and an empty tile map,
\* without raising, for every payload that decompresses to at least the 12
\* bytes of a header, whatever the cell bytes behind it are; on any other
\* payload it raises zlib.error or EOFError.
DegradedReadsHeader ==
    (op = "parse" /\ important = {})
        => IF HoldsHeader
           THEN /\ parsed.ok
                /\ parsed.hdr.x_start = Int32(blob[2], blob[3], blob[4], blob[5])
                /\ parsed.hdr.y_start = Int32(blob[6], blob[7], blob[8], blob[9])
                /\ parsed.hdr.width = Int16(blob[10], blob[11])
                /\ parsed.hdr.height = Int16(blob[12], blob[13])
                /\ parsed.tiles = NoTiles
           ELSE ~parsed.ok /\ parsed.err \in {"zlib.error", "EOFError"}

\* The header of a 2 x 2 section came back with no tiles from a payload
\* whose cell data ends too early for the decoder proper.
DegradedReadsHeaderWitness ==
    /\ op = "parse"
    /\ important = {}
    /\ parsed.ok
    /\ parsed.hdr = [x_start |-> 1, y_start |-> 2, width |-> 2, height |-> 2]
    /\ parsed.tiles = NoTiles
    /\ Len(blob) = 15
    /\ ~ParseTileSection([kind |-> "bytes", raw |-> blob], TileFrameImportant).ok

(***************************************************************************)
(* Properties of the framer on frames it has no schema for, or cannot      *)
(* parse.                                                                  *)
(***************************************************************************)
\* The last call found a whole frame of at least 3 bytes at the front of
\* the buffer.
CalledOnFrame ==
    /\ op = "call"
    /\ Len(buf0) >= 3
    /\ LengthField(buf0) >= 3
    /\ Len(buf0) >= LengthField(buf0)

ModeOf(m) == m.payload.f[1] % 4

TargetOf(m) == m.payload.f[2]

\* What C15 says of a step that handles the teleport message m.
TeleportEffect(m) ==
    /\ pc' # "Crashed"
    /\ (ModeOf(m) \in {0, 2} /\ TargetOf(m) = player_slot)
          => (/\ sent' = Append(sent, Pkt(MSG_TELEPORT, <<TargetOf(m)>>))
              /\ pending' = pending)
    /\ (ModeOf(m) \in {0, 2} /\ TargetOf(m) # player_slot)
          => (/\ sent' = sent
              /\ pending' = TrackerSent(pending, TargetOf(m)).pending)
    /\ ModeOf(m) = 3
          => (/\ sent' = sent
              /\ pending' = TrackerAck(pending, TargetOf(m)).pending)
    /\ ModeOf(m) = 1 => (sent' = sent /\ pending' = pending)

\* C15: on a teleport message, awaiting spawn: with mode 0 or 2 sent(target)
\* is called and, when the target is the own slot, one acknowledge packet is
\* sent and ack(target) is called, so pending is as before; with mode 3
\* ack(target) is called and nothing is sent; with mode 1 nothing changes.
TeleportAnswered ==
    [][(/\ op' = "spawn_step"
        /\ NextMessage(buf).msg.type = MSG_TELEPORT
        /\ NextMessage(buf).msg.payload.kind = "record")
          => TeleportEffect(NextMessage(buf).msg)]_vars

\* A tile-section message whose payload bytes parse_tile_section cannot
\* decode.
Undecodable(m) ==
    /\ m.type = MSG_TILE_SECTION
    /\ ~ParseTileSection([kind |-> "bytes", raw |-> m.payload.raw], TileFrameImportant).ok

\* The step leaves the tiles, the section count and the NPCs of WorldState
\* and the tracker as the handlers leave them after msgs, and it ends the
\* session exactly if one of those handlers raises.
WorldAfter(msgs) ==
    LET S == HandleAll(Locals, msgs, player_slot, xy, TRUE)
    IN  /\ state'.tiles = S.state.tiles
        /\ state'.tile_sections = S.state.tile_sections
        /\ state'.npcs = S.state.npcs
        /\ pending' = S.pending
        /\ (pc' = "Crashed") <=> (S.raised # "")

\* C18: a tile-section message that cannot be decoded (decompression
\* fails, or the cell data ends early) is skipped as a whole: tiles and
\* tile_sections stay as they were, the session goes on, and the messages
\* behind it in a batch are handled as if it had not been there.
BadTileSectionSkipped ==
    [][/\ (op' = "spawn_step" /\ Undecodable(NextMessage(buf).msg))
            => (/\ pc' = "AwaitSpawn"
                /\ state' = state)
       /\ (op' = "poll_playing" /\ error'.kind # "ConnectionError")
            => WorldAfter(SelectSeq(batch', LAMBDA m : ~Undecodable(m)))]_vars

\* Playing, one batch held a tile section that does not decode and, behind
\* it, an NPC message: the NPC is in WorldState and no tile or section is.
BadTileSectionSkippedWitness ==
    /\ op = "poll_playing"
    /\ pc = "Playing"
    /\ Len(batch) = 2
    /\ Undecodable(batch[1])
    /\ batch[1].payload.raw = ShortTileBlob
    /\ batch[2].type = MSG_NPC
    /\ 3 \in DOMAIN state.npcs
    /\ state.tiles = NoTiles
    /\ state.tile_sections = 0

\* C20: a frame whose payload does not parse against the schema of its
\* type is not fatal: the session does not end at the step that handles it,
\* also when it is the connection-approved or the world-info message.
MalformedNotFatal ==
    [][/\ (op' \in {"approval", "spawn_step"}
             /\ NextMessage(buf).msg.payload.kind = "fallback")
            => pc' \notin Terminal
       /\ (op' = "poll_worldinfo" /\ seen' \in DOMAIN batch'
             /\ batch'[seen'].payload.kind = "fallback")
            => pc' \notin Terminal]_vars


(***************************************************************************)
(* Properties of the stream calls.                                         *)
(***************************************************************************)
\* The bytes the calls have taken off the socket so far.
FedBytes == Take(Concat(frames), Len(Concat(frames)) - Len(wire))

\* C21: poll_messages(max) returns at most max messages; the messages left
\* buffered are not lost: the calls return the frames' messages in arrival
\* order, a call that returns fewer than max leaves no complete frame, and
\* the buffer holds exactly the bytes read and not yet returned, a trailing
\* partial frame included.
PollBoundedNothingLost ==
    /\ (op = "poll_messages" /\ error = NoError) =>
          /\ Len(polled.msgs) <= polled.max
          /\ Len(polled.msgs) < polled.max => NextMessage(buf).msg = None
    /\ Len(out) <= Len(frames)
    /\ \A i \in 1 .. Len(out) : out[i] = ParseMessage(frames[i])
    /\ buf = Drop(FedBytes, Len(Concat(Take(frames, Len(out)))))

\* A poll_messages(1) that returned one message and left a whole frame and
\* no more in the buffer, returned by the call after it.
PollBoundedNothingLostWitness ==
    /\ op = "poll_messages"
    /\ error = NoError
    /\ polled.max = 1
    /\ Len(out) = 2
    /\ frames[1] # frames[2]
    /\ polled.msgs = <<ParseMessage(frames[2])>>
    /\ buf0 = frames[2]

\* C23: a zero-length read ends recv_message and poll_messages with a
\* connection-closed error: the call that drains a closed connection raises,
\* it has read nothing behind the bytes the peer wrote, and it returns no
\* message: the bytes read stay in the buffer as they came.
ZeroReadRaises ==
    [][/\ (error = NoError /\ error'.kind = "ConnectionError") =>
              /\ closed
              /\ wire' = <<>>
              /\ out' = out
              /\ buf' = FeedBuf(buf, wire)
       /\ (op' = "poll_messages" /\ closed /\ wire' = <<>>) =>
              error'.kind = "ConnectionError"
       /\ (op' = "recv_message" /\ closed /\ NextMessage(FeedBuf(buf, wire)).msg = None) =>
              error'.kind = "ConnectionError"]_vars

\* recv_message has raised on a connection closed inside a frame: the bytes
\* of the cut frame are in the buffer.
ZeroReadRaisesWitness ==
    /\ op = "recv_message"
    /\ error.kind = "ConnectionError"
    /\ Len(buf) >= 3
    /\ Len(out) < Len(frames)
    /\ buf = frames[Len(frames)]

\* C22: poll_messages never blocks: every call returns (or raises) whatever
\* the peer does, and a call that found nothing to read and no complete
\* frame in the buffer returns an empty list and leaves the buffer as it
\* was.
PollAlwaysReturns ==
    /\ (pc = "Draining") ~> (pc # "Draining")
    /\ [](op = "poll_return" /\ seen = 0 /\ NextMessage(buf0).msg = None
              => polled.msgs = <<>> /\ buf = buf0)

(***************************************************************************)
(* Properties of the packet builders and of the 7-bit integer codec.       *)
(***************************************************************************)
\* The payload of a built packet.
BuiltPayload == Drop(res.bytes, 3)

\* C24: build_spawn_packet takes the layout from the profile's format alone:
\* under v0 the payload is the slot and spawn x, y as two i32, 9 bytes;
\* under any other format, and when the profile names none, it is the slot,
\* x and y as i16, the respawn timer as i32, the two death counts as i16,
\* the team and the spawn context, 15 bytes.
SpawnLayoutFromProfile ==
    op = "build_spawn_packet" =>
        /\ res.raised = ""
        /\ res.bytes[3] = MSG_PLAYER_SPAWN
        /\ LengthField(res.bytes) = Len(res.bytes)
        /\ BuiltPayload[1] = arg.player_slot
        /\ IF <<"player_spawn", "v0">> \in arg.profile
           THEN /\ Len(BuiltPayload) = 9
                /\ ReadInt32(BuiltPayload, 1) = arg.spawn_x
                /\ ReadInt32(BuiltPayload, 5) = arg.spawn_y
           ELSE /\ Len(BuiltPayload) = 15
                /\ ReadInt16(BuiltPayload, 1) = arg.spawn_x
                /\ ReadInt16(BuiltPayload, 3) = arg.spawn_y
                /\ ReadInt32(BuiltPayload, 5) = arg.respawn_timer
                /\ ReadInt16(BuiltPayload, 9) = arg.deaths_pve
                /\ ReadInt16(BuiltPayload, 11) = arg.deaths_pvp
                /\ BuiltPayload[14] = arg.team
                /\ BuiltPayload[15] = arg.spawn_context

\* A spawn packet built for a profile that names no format, with a negative
\* spawn x and a timer of more than two bytes.
SpawnLayoutFromProfileWitness ==
    /\ op = "build_spawn_packet"
    /\ arg.profile = {}
    /\ arg.spawn_x = -1
    /\ arg.respawn_timer = 70000
    /\ Len(res.bytes) = 18

\* C25: under v0, and when the profile names no format, build_player_buffs_packet
\* emits the slot and then exactly BuffSlots u16 entries whatever buffs it is
\* given; under v1 it emits the slot, the ids given and one zero u16.
BuffsLayout ==
    (op = "build_player_buffs_packet" /\ res.raised = "") =>
        /\ res.bytes[3] = MSG_BUFFS
        /\ BuiltPayload[1] = arg.player_slot % 256
        /\ IF <<"player_buffs", "v1">> \in arg.profile
           THEN /\ Len(BuiltPayload) = 1 + 2 * Len(Concat(arg.buffs)) + 2
                /\ \A i \in 1 .. Len(Concat(arg.buffs)) :
                      At(BuiltPayload, 2 * i - 1) + 256 * At(BuiltPayload, 2 * i)
                          = Concat(arg.buffs)[i]
                /\ At(BuiltPayload, Len(BuiltPayload) - 2) = 0
                /\ At(BuiltPayload, Len(BuiltPayload) - 1) = 0
           ELSE Len(BuiltPayload) = 1 + 2 * BuffSlots

\* The number of continuation bytes a stream starts with.
RECURSIVE LeadingContinuations(_)
LeadingContinuations(data) ==
    IF data = <<>> \/ Head(data) < 128 THEN 0 ELSE 1 + LeadingContinuations(Tail(data))

\* C28: an integer written by write_7bit_encoded_int is read back by
\* read_7bit_encoded_int: the bytes carry 7 bits each, lowest first, every
\* byte but the last with the high bit set.  Reading raises ValueError at the
\* sixth continuation byte without reading on, raises EOFError when the
\* stream ends behind a continuation byte, and else stops behind the first
\* byte without the high bit.
VarintRoundTrip ==
    /\ op \in {"round_trip", "read_7bit_encoded_int"} =>
          /\ res.back.raised = ""
          /\ DigitsValue(res.back.digits) = arg.n
          /\ res.back.pos = Len(res.bytes)
          /\ \A i \in 1 .. Len(res.bytes) :
                /\ (res.bytes[i] >= 128) <=> (i < Len(res.bytes))
                /\ res.bytes[i] % 128 = res.back.digits[i]
    /\ op = "read_7bit_encoded_int" =>
          /\ LeadingContinuations(arg.data) > 5 =>
                res.read.raised = "ValueError" /\ res.read.pos = 6
          /\ (LeadingContinuations(arg.data) <= 5
                /\ LeadingContinuations(arg.data) = Len(arg.data)) =>
                res.read.raised = "EOFError"
          /\ (LeadingContinuations(arg.data) <= 5
                /\ LeadingContinuations(arg.data) < Len(arg.data)) =>
                /\ res.read.raised = ""
                /\ res.read.pos = LeadingContinuations(arg.data) + 1

\* A four-byte integer has come back, and a stream of six continuation bytes
\* and one more byte has been refused.
VarintRoundTripWitness ==
    /\ op = "read_7bit_encoded_int"
    /\ arg.n = 2097152
    /\ Len(res.bytes) = 4
    /\ Len(arg.data) = 7
    /\ LeadingContinuations(arg.data) = 6
    /\ res.read.raised = "ValueError"

(***************************************************************************)
(* Properties of the WorldState.                                           *)
(***************************************************************************)
\* The slots stored in a WorldState and the record stored under one.
SlotsOf(st) == {st.items[i].item_slot : i \in DOMAIN st.items}

ItemOf(st, slot) == st.items[CHOOSE i \in DOMAIN st.items : st.items[i].item_slot = slot]

\* st and su differ at most in their items.
SameButItems(st, su) == su = [st EXCEPT !.items = su.items]

\* C26: a full item update stores the record given in place of the one
\* stored and leaves the other items alone; an owner update or a removal for
\* a slot that is not stored leaves the WorldState as it was, no entry
\* created; an owner update for a stored slot changes the owner of that item
\* and nothing else.
ItemUpdatesFramed ==
    [][/\ op' = "update_item" =>
              /\ SameButItems(state, state')
              /\ SlotsOf(state') = SlotsOf(state) \cup {arg'.item.item_slot}
              /\ ItemOf(state', arg'.item.item_slot) = arg'.item
              /\ \A s \in SlotsOf(state) \ {arg'.item.item_slot} :
                    ItemOf(state', s) = ItemOf(state, s)
       /\ (op' \in {"update_item_owner", "remove_item"}
              /\ arg'.item_slot \notin SlotsOf(state)) => state' = state
       /\ (op' = "update_item_owner" /\ arg'.item_slot \in SlotsOf(state)) =>
              /\ SameButItems(state, state')
              /\ SlotsOf(state') = SlotsOf(state)
              /\ ItemOf(state', arg'.item_slot)
                    = [ItemOf(state, arg'.item_slot) EXCEPT !.owner = <<arg'.owner>>]
              /\ \A s \in SlotsOf(state) \ {arg'.item_slot} :
                    ItemOf(state', s) = ItemOf(state, s)]_vars

\* An owner update for the slot never stored has come to a WorldState that
\* holds two items, one of them owned.
ItemUpdatesFramedWitness ==
    /\ op = "update_item_owner"
    /\ arg.item_slot = 2
    /\ SlotsOf(state) = {0, 1}
    /\ ItemOf(state, 0).owner = <<255>>
    /\ ItemOf(state, 1).owner = <<>>
    /\ res = state

\* C27: merging a tile section is last-write-wins per coordinate: every
\* coordinate of the section takes the section's tile, every other
\* coordinate keeps its tile, and no coordinate ever leaves the tiles.
TilesLastWriteWins ==
    [][/\ DOMAIN state.tiles \subseteq DOMAIN state'.tiles
       /\ op' = "update_tile_section" =>
              /\ DOMAIN state'.tiles = DOMAIN state.tiles \cup DOMAIN arg'.section.tiles
              /\ \A c \in DOMAIN arg'.section.tiles :
                    state'.tiles[c] = arg'.section.tiles[c]
              /\ \A c \in DOMAIN state.tiles \ DOMAIN arg'.section.tiles :
                    state'.tiles[c] = state.tiles[c]]_vars

\* A section has overwritten the tile at one coordinate and left the tile at
\* the other, which it does not cover.
TilesLastWriteWinsWitness ==
    /\ op = "update_tile_section"
    /\ DOMAIN res.tiles = StateCoords
    /\ DOMAIN arg.section.tiles = {<<0, 0>>}
    /\ res.tiles[<<0, 0>>] = 1
    /\ state.tiles[<<0, 0>>] = 2
    /\ state.tiles[<<1, 0>>] = 1

(***************************************************************************)
(* Properties of the run counter of the tile decoder.                      *)
(***************************************************************************)
\* The first cell of the section as the cell loop reads it.
FirstCell == ReadCell(Inflated, 12, important)

\* C30: a cell is a run-length repeat only while the run counter is above 0,
\* and the counter is never negative, also when the run length is read as a
\* signed i16 with the high bit set: the counter the first cell leaves is not
\* negative, and when it is not above 0 the second cell is read from the
\* bytes behind the first, so that a byte 0 there makes it an empty cell.
RunCounterNeverNegative ==
    (/\ op = "parse"
     /\ important # {}
     /\ blob # <<>>
     /\ Head(blob) = 120
     /\ Len(Inflated) >= 12
     /\ CellCount(ReadHeader(Inflated)) > 1
     /\ FirstCell.ok)
        => /\ FirstCell.rle >= 0
           /\ (parsed.ok /\ FirstCell.rle <= 0 /\ FirstCell.pos < Len(Inflated)
                  /\ At(Inflated, FirstCell.pos) = 0)
                => CellAt(1) \notin DOMAIN parsed.tiles

(***************************************************************************)
(* Properties of the relaying proxy.                                       *)
(***************************************************************************)
\* C29: under every interleaving of the two pipe tasks, each direction
\* writes to the other side the bytes it has read, unchanged and in order,
\* and goes on forwarding whatever the bytes are: no task is ever stopped by
\* what its dumper makes of them.
ProxyForwardsWhatever ==
    \A d \in Directions :
        /\ proxy[d].pc # "crashed"
        /\ proxy[d].dst \o proxy[d].chunk = proxy[d].taken


\* C31: the remembered cell is replaced after every cell that is read,
\* active or not.  With an active first cell of type T1: a run behind an
\* inactive second cell records no tile for any cell of the run, and a run
\* behind an active second cell of type T2 records T2 for every cell of the
\* run; in the 5 x 1 example the cell of the inactive run stays empty and the
\* later run repeats type 2, not the 5 of the first cell.
LastCellReplaced ==
    (op = "parse" /\ important # {} /\ parsed.ok /\ At(Inflated, 12) = 2)
        => /\ At(Inflated, 14) = 64
                => \A k \in 1 .. Min(1 + At(Inflated, 15), CellCount(parsed.hdr) - 1) :
                       CellAt(k) \notin DOMAIN parsed.tiles
           /\ At(Inflated, 14) = 66
                => \A k \in 1 .. Min(1 + At(Inflated, 16), CellCount(parsed.hdr) - 1) :
                       /\ CellAt(k) \in DOMAIN parsed.tiles
                       /\ parsed.tiles[CellAt(k)] = At(Inflated, 15)
           /\ blob = LastCellExample
                => /\ DOMAIN parsed.tiles = {CellAt(0), CellAt(3), CellAt(4)}
                   /\ parsed.tiles[CellAt(0)] = 5
                   /\ parsed.tiles[CellAt(3)] = 2
                   /\ parsed.tiles[CellAt(4)] = 2

LastCellReplacedWitness ==
    /\ op = "parse"
    /\ blob = LastCellExample
    /\ important # {}
    /\ parsed.ok
    /\ CellAt(2) \notin DOMAIN parsed.tiles
    /\ parsed.tiles[CellAt(4)] = 2

(***************************************************************************)
(* Properties of one cell of a tile section.                               *)
(***************************************************************************)
\* The layout of the cell in arg.data, field by field in the order of the
\* format: where each field starts when it is present.
CellLayout ==
    LET d == arg.data
        b4 == At(d, 0)
        has3 == Bit(b4, 1)
        b3 == IF has3 THEN At(d, 1) ELSE 0
        has2 == Bit(b3, 1)
        at2 == 1 + Size(has3, 1)
        b2 == IF has2 THEN At(d, at2) ELSE 0
        has1 == Bit(b2, 1)
        atType == at2 + Size(has2, 1) + Size(has1, 1)
        active == Bit(b4, 2)
        wide == Bit(b4, 32)
        type == IF ~active THEN NoType
                ELSE IF wide THEN At(d, atType) + 256 * At(d, atType + 1)
                ELSE At(d, atType)
        atFrame == atType + Size(active, IF wide THEN 2 ELSE 1)
        atColour == atFrame + Size(active /\ type \in arg.tfi, 4)
        atWall == atColour + Size(active /\ Bit(b2, 8), 1)
        atWallColour == atWall + Size(Bit(b4, 4), 1)
        atLiquid == atWallColour + Size(Bit(b4, 4) /\ Bit(b2, 16), 1)
        atHigh == atLiquid + Size((b4 \div 8) % 4 # 0, 1)
        atRun == atHigh + Size(Bit(b2, 64), 1)
        flag == (b4 \div 64) % 4
    IN  [active |-> active, type |-> type, atRun |-> atRun,
         end |-> atRun + (IF flag = 0 THEN 0 ELSE IF flag = 1 THEN 1 ELSE 2),
         rle |-> IF flag = 0 THEN 0
                 ELSE IF flag = 1 THEN At(d, atRun)
                 ELSE Int16(At(d, atRun), At(d, atRun + 1)),
         colour |-> active /\ Bit(b2, 8),
         wall_colour |-> Bit(b4, 4) /\ Bit(b2, 16)]

\* C32: a cell that is not a repeat takes its bytes in this order and
\* number: b4; b3 if b4 & 1; b2 if b3 & 1; a reserved byte if b2 & 1; for an
\* active cell the type (2 bytes if b4 & 0x20, else 1), 4 frame bytes if
\* the type is frame-important, a colour byte if b2 & 8; for a wall one byte
\* and a colour byte if b2 & 0x10; a liquid byte; a byte if b2 & 0x40; the
\* run length in 0, 1 or 2 bytes.  The type and the run length are the
\* values at those places, and the read fails exactly when the bytes end
\* before the cell does.
CellBytesInOrder ==
    op = "read_cell"
        => /\ res.pos = CellLayout.end
           /\ res.active = CellLayout.active
           /\ res.type = CellLayout.type
           /\ res.rle = CellLayout.rle
           /\ res.ok = (CellLayout.end <= Len(arg.data))

CellBytesInOrderWitness ==
    /\ op = "read_cell"
    /\ Take(arg.data, 3) = <<255, 1, 89>>
    /\ Len(arg.data) = 18
    /\ arg.tfi = TileFrameImportant
    /\ res.ok
    /\ res.type = 3
    /\ res.pos = 17
    /\ res.rle = 2
    /\ CellLayout.colour
    /\ CellLayout.wall_colour

(***************************************************************************)
(* Properties of the packet builders.                                      *)
(***************************************************************************)
\* The header bytes, the type and the payload the framer should see for the
\* packet built from arg.
BuiltHeader == IF arg.fn = "build_netmodule_packet" THEN 5 ELSE 3

BuiltType == IF arg.fn = "build_netmodule_packet" THEN MSG_NETMODULE ELSE arg.t

FramedPayload ==
    IF arg.fn = "build_netmodule_packet"
    THEN <<arg.module_id % 256, arg.module_id \div 256>> \o res.payload
    ELSE res.payload

TeleportBits == arg.payload[1]

\* C34: decode_teleport gives mode = (1 if bit 0) + (2 if bit 1) of the
\* flags byte, one of 0, 1, 2, 3, and reads the extra i32 exactly when bit 3
\* is set: 12 bytes are enough without it, 16 are needed with it.  The
\* packet build_teleport_ack_packet builds for a target decodes to mode 3
\* and that target: an acknowledgement, not a teleport request.
TeleportModeAndAck ==
    /\ op = "decode_teleport"
        => /\ res.ok = (Len(arg.payload) >= (IF Bit(TeleportBits, 8) THEN 16 ELSE 12))
           /\ res.ok => /\ res.mode = TeleportBits % 4
                        /\ res.mode \in 0 .. 3
                        /\ (res.extra # <<>>) = Bit(TeleportBits, 8)
                        /\ res.target = Int16(arg.payload[2], arg.payload[3])
    /\ (op = "build_teleport_ack_packet" /\ res.raised = "")
        => /\ res.back.ok
           /\ res.back.mode = 3
           /\ res.back.target = arg.target
           /\ res.back.extra = <<>>

TeleportModeAndAckWitness ==
    /\ op = "build_teleport_ack_packet"
    /\ arg.target = -1
    /\ res.bytes = <<15, 0, MSG_TELEPORT, 3, 255, 255, 0, 0, 0, 0, 0, 0, 0, 0, 0>>
    /\ res.back.ok
    /\ res.back.mode = 3
    /\ res.back.target = -1

(***************************************************************************)
(* Properties of recv_message and poll_messages on one stream.             *)
(***************************************************************************)
\* C37: recv_message and poll_messages work on one buffer: however the calls
\* interleave, a call adds to the messages returned so far only the
\* messages of the next frames sent, in order and once each, and a
\* recv_message that finds a complete message buffered returns it and reads
\* nothing from the transport.
SharedBufferInOrder ==
    [][/\ Len(out') >= Len(out)
       /\ Len(out') <= Len(frames')
       /\ \A i \in 1 .. Len(out') :
             out'[i] = IF i <= Len(out) THEN out[i] ELSE ParseMessage(frames[i])
       /\ (op' = "recv_message" /\ NextMessage(buf).msg # None)
             => /\ wire' = wire
                /\ out' = Append(out, NextMessage(buf).msg)
                /\ buf' = NextMessage(buf).buf]_vars

\* A recv_message has returned the second frame, which a poll_messages(1)
\* had read and left whole in the buffer.
SharedBufferInOrderWitness ==
    /\ op = "recv_message"
    /\ error = NoError
    /\ polled # None
    /\ polled.max = 1
    /\ polled.msgs = <<ParseMessage(frames[1])>>
    /\ buf0 = frames[2]
    /\ frames[1] # frames[2]
    /\ out = <<ParseMessage(frames[1]), ParseMessage(frames[2])>>
    /\ buf = <<>>

\* C38: every complete frame the peer sent before it closed is delivered
\* before the disconnection is reported: when the client ends on a
\* connection-closed error, no complete frame (a fatal error, say) is left
\* unreturned in the buffer.
FramesBeforeDisconnect ==
    error.kind = "ConnectionError" => NextMessage(buf).msg = None

(***************************************************************************)
(* Properties of the approval gate of login.                               *)
(***************************************************************************)
\* The packets login sends once it is approved, and those of them whose
\* payload names a player, as its first field.
PostApprovalTypes ==
    {MSG_APPEARANCE, MSG_UUID, MSG_LIFE, MSG_MANA, MSG_BUFFS, MSG_LOADOUT, MSG_INVENTORY,
     MSG_REQUEST_WORLD}

SlotTypes == {MSG_APPEARANCE, MSG_LIFE, MSG_MANA, MSG_BUFFS, MSG_INVENTORY}

BeforeApproval == {"Connecting"} \cup AwaitingApproval

\* The packets a step has sent.
NewlySent == SubSeq(sent', Len(sent) + 1, Len(sent'))

WholeBatchHandled ==
    (op = "poll_worldinfo" /\ pc = "AwaitSpawn") => seen = Len(batch)

(***************************************************************************)
(* Properties of try_pickup_reserved_items.                                *)
(***************************************************************************)
\* An inventory slot find_empty_slot passes for empty.
IsEmptySlot(s) == s = None \/ s.item_id = 0 \/ s.stack = 0

\* The items the call took out of WorldState.items, in their order there.
Picked == SelectSeq(res.items, LAMBDA it : ~HasItem(state.items, it.item_slot))

\* The inventory slot (counted from 0) the j-th picked item was sent for.
SlotSentFor(j) == sent[2 * j - 1].args[2]

\* C39: for each item try_pickup_reserved_items picks up it sends one $05
\* packet and, right behind it, one $97 packet for the item, removes the
\* item from WorldState.items and stores it in an inventory slot that was
\* empty (None, item id 0 or stack 0) before the call; the slots of two
\* picked items differ and every other slot is as it was; with no empty slot
\* nothing is sent and the items are unchanged; an item whose owner is not
\* the client's slot stays as it was.
PickupUsesEmptySlots ==
    op = "try_pickup_reserved_items"
        => /\ Len(sent) = 2 * Len(Picked)
           /\ \A j \in 1 .. Len(Picked) :
                 /\ sent[2 * j - 1].type = MSG_INVENTORY
                 /\ sent[2 * j - 1].args[1] = player_slot
                 /\ sent[2 * j] = Pkt(MSG_REMOVE_ITEM, <<Picked[j].item_slot>>)
                 /\ SlotSentFor(j) + 1 \in DOMAIN inventory
                 /\ IsEmptySlot(res.slots[SlotSentFor(j) + 1])
                 /\ inventory[SlotSentFor(j) + 1]
                       = [item_id |-> Picked[j].item_id, stack |-> Picked[j].stack,
                          prefix_id |-> Picked[j].prefix_id]
                 /\ \A k \in 1 .. Len(Picked) : k # j => SlotSentFor(k) # SlotSentFor(j)
           /\ \A i \in DOMAIN inventory :
                 (\A j \in 1 .. Len(Picked) : SlotSentFor(j) + 1 # i)
                     => inventory[i] = res.slots[i]
           /\ state.items = SelectSeq(res.items, LAMBDA it : HasItem(state.items, it.item_slot))
           /\ (\A i \in DOMAIN res.slots : ~IsEmptySlot(res.slots[i]))
                 => (sent = <<>> /\ state.items = res.items)
           /\ \A i \in DOMAIN res.items :
                 res.items[i].owner # <<player_slot>>
                     => \E k \in DOMAIN state.items : state.items[k] = res.items[i]

\* Two items were picked up in one call, into two slots that were empty, the
\* first of them an entry without an item id or without a stack.
PickupUsesEmptySlotsWitness ==
    /\ op = "try_pickup_reserved_items"
    /\ Len(Picked) = 2
    /\ Len(sent) = 4
    /\ SlotSentFor(1) # SlotSentFor(2)
    /\ res.slots[1] # None
    /\ IsEmptySlot(res.slots[1])

====
